---- MODULE Spec2Model ----
(***************************************************************************)
(* Model of the skye-hub admin provisioning endpoint                       *)
(* (supabase/functions/admin_create_user/index.ts, the handler exported at *)
(* line 439) together with the two platform services it calls: the        *)
(* identity service (auth.getUser, auth.admin.createUser / listUsers /     *)
(* inviteUserByEmail, auth.resetPasswordForEmail) and the user_profiles    *)
(* table.  One action per stretch of handler code between two awaits.      *)
(***************************************************************************)
EXTENDS Integers, Sequences, FiniteSets, TLC

VARIABLES
    envOK,        \* SUPABASE_URL and SUPABASE_SERVICE_ROLE_KEY are both set
    authUsers,    \* identity-service accounts, in the order listUsers returns them
    hiddenBefore, \* accounts of other people that listUsers returns before authUsers
    profiles,     \* table user_profiles: id -> row
    rq,           \* per request slot: the request, the handler's locals and position
    prev,         \* summary of the request that completed last in the slot
    accessGrants, \* table user_store_access: set of rows
    stores,       \* table stores: id -> row
    ui,           \* the admin console: component state and position in a handler
    auth          \* AuthProvider: its state, the calls in flight, the client's session

vars == <<envOK, authUsers, hiddenBefore, profiles, rq, prev, accessGrants, stores, ui, auth>>

----------------------------------------------------------------------------
(* Values *)

\* undefined / null / missing JSON key, for string-valued fields
None == "none"

\* strings the code inspects character by character are tuples of characters;
\* the empty tuple stands for every falsy string value (undefined, null, "")
NoText == <<>>

Slots == {1, 2}

\* program constants of the find-by-email fallback
MaxScanPages == 5
PerPage == 200

\* number of random bytes genTempPassword draws
TempPasswordBytes == 24

\* identity-service subjects that exist before any request
AdminId == "u-admin"
EmpId == "u-emp"
GhostId == "u-ghost"
\* ids the identity service hands out to new accounts, in order
NewIds == <<"u-new-1", "u-new-2">>

AdminEmail == <<"a", "@", "x">>
EmpEmail == <<"e", "@", "x">>
GhostEmail == <<"g", "@", "x">>
NewEmail == <<"n", "@", "x">>
NewEmailUpper == <<"N", "@", "X">>

\* String.prototype.toLowerCase on the alphabet used here
ToLowerChar(c) ==
    CASE c = "A" -> "a"
      [] c = "E" -> "e"
      [] c = "G" -> "g"
      [] c = "N" -> "n"
      [] c = "X" -> "x"
      [] OTHER -> c

ToLowerCase(s) == [i \in 1..Len(s) |-> ToLowerChar(s[i])]

----------------------------------------------------------------------------
(* Requests *)

Methods == {"OPTIONS", "GET", "POST"}

\* Authorization header values: absent, empty, prefix only, prefix + token.
\* A header is a tuple of atoms: the scheme word, a blank, a token.
NoHeader == <<"<absent>">>
Tokens == {"tok-admin", "tok-emp", "tok-ghost", "tok-bad"}
AuthHeaders ==
    {NoHeader, <<>>, <<"Bearer">>, <<"Bearer", " ">>, <<"bearer", " ", "tok-admin">>}
    \cup {<<"Bearer", " ", t>> : t \in Tokens}

IsBearerWord(a) == a \in {"Bearer", "bearer", "BEARER"}

RECURSIVE DropLeadingBlanks(_)
DropLeadingBlanks(s) ==
    IF s # <<>> /\ Head(s) = " " THEN DropLeadingBlanks(Tail(s)) ELSE s

RECURSIVE DropTrailingBlanks(_)
DropTrailingBlanks(s) ==
    IF s # <<>> /\ s[Len(s)] = " "
    THEN DropTrailingBlanks(SubSeq(s, 1, Len(s) - 1))
    ELSE s

\* String.prototype.trim
Trim(s) == DropTrailingBlanks(DropLeadingBlanks(s))

\* authHeader.replace(/^Bearer\s+/i, ""): the scheme word followed by at least
\* one blank is removed together with all the blanks that follow it
StripBearerPrefix(h) ==
    IF Len(h) >= 2 /\ IsBearerWord(h[1]) /\ h[2] = " "
    THEN DropLeadingBlanks(Tail(h))
    ELSE h

\* bug variant: the scheme word is not removed, the header is only trimmed
ExtractBearerNoStrip(header) ==
    Trim(IF header = NoHeader THEN <<>> ELSE header)

\* const authHeader = req.headers.get("authorization") || "";
\* const bearer = authHeader.replace(/^Bearer\s+/i, "").trim();
ExtractBearer(header) ==
    Trim(StripBearerPrefix(IF header = NoHeader THEN <<>> ELSE header))

\* the subject a bearer token was issued to ("none": no valid session)
TokenSubject(bearer) ==
    CASE bearer = <<"tok-admin">> -> AdminId
      [] bearer = <<"tok-emp">> -> EmpId
      [] bearer = <<"tok-ghost">> -> GhostId
      [] OTHER -> None

\* Request bodies.  Malformed stands for every body req.json() rejects
\* (invalid JSON, empty body).
Malformed ==
    [mode |-> "<malformed>", email |-> <<>>, full_name |-> "none", role |-> "none",
     status |-> "none", home_store_id |-> "none", invite |-> "absent",
     tempPassword |-> <<>>]

BodyEmails == {NoText, NewEmail, NewEmailUpper}
BodyNames == {None, "New Person"}
BodyRoles == {None, "Manager"}
BodyStatuses == {None, "inactive"}
BodyStores == {None, "store-1"}
BodyInvites == {"absent", "true", "false"}
ProvidedPassword == <<"P", "w", "1", "!">>
BodyPasswords == {NoText, ProvidedPassword}

\* Create bodies: every combination of role, status, home store, invite and
\* password for the plain email, and the plain profile fields for every email,
\* name, invite and password value.
CreateBodies ==
    {b \in [mode : {None}, email : BodyEmails, full_name : BodyNames,
            role : BodyRoles, status : BodyStatuses, home_store_id : BodyStores,
            invite : BodyInvites, tempPassword : BodyPasswords] :
        \/ b.email = NewEmail /\ b.full_name # None /\ b.invite # "false"
        \/ b.role = None /\ b.status = None /\ b.home_store_id = None}

ResetBodies ==
    [mode : {"reset"}, email : BodyEmails, full_name : {None}, role : {None},
     status : {None}, home_store_id : {None}, invite : {"absent"},
     tempPassword : {NoText}]

Bodies == {Malformed} \cup CreateBodies \cup ResetBodies

PlainCreate(email, name) ==
    [mode |-> None, email |-> email, full_name |-> name, role |-> None,
     status |-> None, home_store_id |-> None, invite |-> "absent",
     tempPassword |-> NoText]

\* one body of each kind: unparseable, create with and without its required
\* fields, reset with and without its required field
ProbeBodies ==
    {Malformed, PlainCreate(NewEmail, "New Person"), PlainCreate(NewEmail, None),
     [PlainCreate(NewEmail, None) EXCEPT !.mode = "reset"],
     [PlainCreate(NoText, None) EXCEPT !.mode = "reset"]}

\* x-correlation-id header values: absent (headers.get returns null), empty,
\* and an identifier chosen by the caller
CorrelationHeaders == {None, "", "cid-caller"}

\* values crypto.randomUUID() may return for an invocation
UUIDs == {"uuid-1", "uuid-2"}

\* The requests the model submits: every method and header with a body of each
\* kind, and every body for the POST of an administrator.  The correlation
\* header and the invocation's random identifier vary for the bodies of each
\* kind, sent without a credential or by an administrator.
Requests ==
    {q \in [method : Methods, authHeader : AuthHeaders, body : Bodies,
            correlationHeader : CorrelationHeaders, uuid : UUIDs] :
        /\ \/ q.body \in ProbeBodies
           \/ q.method = "POST" /\ q.authHeader = <<"Bearer", " ", "tok-admin">>
        /\ \/ q.correlationHeader = None /\ q.uuid = "uuid-1"
           \/ /\ q.body \in ProbeBodies
              /\ q.authHeader \in {NoHeader, <<"Bearer", " ", "tok-admin">>}
              /\ q.correlationHeader # None => q.uuid = "uuid-1"}

\* The requests of an administrator who creates the same user again and again.
RetryRequests ==
    {q \in [method : {"POST"}, authHeader : {<<"Bearer", " ", "tok-admin">>},
            body : CreateBodies, correlationHeader : {None}, uuid : {"uuid-1"}] :
        /\ q.body.full_name # None /\ q.body.email # NoText
        /\ q.body.role = None /\ q.body.status = None
        /\ q.body.invite # "false"}

----------------------------------------------------------------------------
(* Responses *)

\* what no response looks like (the handler has not returned)
NoResp ==
    [status |-> 0, envelope |-> FALSE, ok |-> FALSE, code |-> None, keys |-> {},
     id |-> None, inviteSent |-> FALSE, tempPassword |-> NoText,
     resetLink |-> None, details |-> None, correlationId |-> None]

\* jsonResponse(status, {ok: false, error: {message, code, details?}, correlationId})
ErrorResponse(status, code) ==
    [status |-> status, envelope |-> TRUE, ok |-> FALSE, code |-> code, keys |-> {},
     id |-> None, inviteSent |-> FALSE, tempPassword |-> NoText,
     resetLink |-> None, details |-> None, correlationId |-> None]

\* new Response("ok", {status: 204, headers: corsHeaders})
PreflightResponse ==
    [status |-> 204, envelope |-> FALSE, ok |-> FALSE, code |-> None, keys |-> {},
     id |-> None, inviteSent |-> FALSE, tempPassword |-> NoText,
     resetLink |-> None, details |-> None, correlationId |-> None]

\* jsonResponse(200, {ok: true, data: {resetLink: null}, correlationId})
ResetResponse ==
    [status |-> 200, envelope |-> TRUE, ok |-> TRUE, code |-> None,
     keys |-> {"resetLink"}, id |-> None, inviteSent |-> FALSE,
     tempPassword |-> NoText, resetLink |-> None, details |-> None,
     correlationId |-> None]

\* bug variant: the temporary password is returned whether or not the invite
\* went out
SuccessKeysAlwaysPassword(inviteSent) ==
    {"id", "inviteSent", "resetLink", "tempPassword"}

\* data: {id, inviteSent, resetLink, tempPassword: inviteSent ? undefined : tempPassword};
\* JSON.stringify leaves out a key whose value is undefined
SuccessKeys(inviteSent) ==
    {"id", "inviteSent", "resetLink"}
    \cup (IF inviteSent THEN {} ELSE {"tempPassword"})

\* jsonResponse(200, {ok: true, data: {...}, correlationId})
SuccessResponse(userId, inviteSent, tempPassword) ==
    [status |-> 200, envelope |-> TRUE, ok |-> TRUE, code |-> None,
     keys |-> SuccessKeys(inviteSent), id |-> userId, inviteSent |-> inviteSent,
     tempPassword |-> IF "tempPassword" \in SuccessKeys(inviteSent)
                      THEN tempPassword ELSE NoText,
     resetLink |-> None, details |-> None, correlationId |-> None]

\* bug variant: the caller's header is ignored
CorrelationIdAlwaysFresh(header, uuid) == uuid

\* const correlationId = req.headers.get("x-correlation-id") || crypto.randomUUID();
CorrelationId(header, uuid) ==
    IF header = None \/ header = "" THEN uuid ELSE header

\* the correlationId member every jsonResponse payload is given; a response
\* that is not built by jsonResponse has no payload to carry it
WithCorrelation(resp, correlationId) ==
    IF resp.envelope THEN [resp EXCEPT !.correlationId = correlationId] ELSE resp

\* the details member of the error object: the name of the error value the
\* handler puts there ("none": no details, or a null / undefined value)
WithDetails(resp, details) == [resp EXCEPT !.details = details]

----------------------------------------------------------------------------
(* The platform: identity service and user_profiles *)

\* results of an awaited platform call: a value, an error value, an exception
Outcomes == {"ok", "err", "throw"}

InitialUsers ==
    << [id |-> AdminId, email |-> AdminEmail, password |-> <<"a">>],
       [id |-> EmpId, email |-> EmpEmail, password |-> <<"e">>],
       [id |-> GhostId, email |-> GhostEmail, password |-> <<"g">>] >>

ProfileRow(id, full_name, email, role, status, home, mustReset) ==
    [id |-> id, full_name |-> full_name, email |-> email, role |-> role,
     status |-> status, home_store_id |-> home, must_reset_password |-> mustReset]

InitialProfiles ==
    [i \in {AdminId, EmpId} |->
        IF i = AdminId
        THEN ProfileRow(AdminId, "Ada Admin", AdminEmail, "Admin", "active", None, FALSE)
        ELSE ProfileRow(EmpId, "Eve Employee", EmpEmail, "Employee", "active",
                        "store-1", FALSE)]

\* how many accounts of other people the listing may hold before the modelled ones
HiddenChoices == {0, MaxScanPages * PerPage - Len(InitialUsers)}

\* the identity service keeps emails unique, ignoring case
EmailTaken(users, email) ==
    \E i \in 1..Len(users) : ToLowerCase(users[i].email) = ToLowerCase(email)

\* the id the identity service gives the next new account
NextNewId(users) == NewIds[Len(users) - Len(InitialUsers) + 1]

\* auth.admin.listUsers({page, perPage}): the accounts at positions
\* (page-1)*perPage+1 .. page*perPage of the listing; the modelled accounts
\* follow hidden accounts of other people
ListUsersPage(users, hidden, page, perPage) ==
    LET lo == (page - 1) * perPage + 1
        hi == page * perPage
        idx == {i \in 1..Len(users) : hidden + i >= lo /\ hidden + i <= hi}
    IN  [user \in idx |-> users[user]]

\* (listData?.users ?? []).find(u => (u.email ?? "").toLowerCase()
\*                                   === String(email).toLowerCase())?.id
FindByEmail(pageUsers, email) ==
    LET hits == {i \in DOMAIN pageUsers :
                    ToLowerCase(pageUsers[i].email) = ToLowerCase(email)}
    IN  IF hits = {} THEN None
        ELSE pageUsers[CHOOSE i \in hits : \A j \in hits : i <= j].id

\* bug variant: the written row replaces the table
UpsertReplacingTable(table, row) == [i \in {row.id} |-> row]

\* .from("user_profiles").upsert(profilePayload, {onConflict: "id"})
Upsert(table, row) ==
    [i \in DOMAIN table \cup {row.id} |-> IF i = row.id THEN row ELSE table[i]]

----------------------------------------------------------------------------
(* The handler's pure steps *)

\* b => (b % 36).toString(36)
Base36Digits ==
    << "0", "1", "2", "3", "4", "5", "6", "7", "8", "9", "a", "b", "c", "d", "e",
       "f", "g", "h", "i", "j", "k", "l", "m", "n", "o", "p", "q", "r", "s", "t",
       "u", "v", "w", "x", "y", "z" >>

Base36Digit(b) == Base36Digits[(b % 36) + 1]

\* Array.from(bytes).map(b => (b % 36).toString(36)).join("") + "!A1"
GenTempPassword(bytes) ==
    [i \in 1..Len(bytes) |-> Base36Digit(bytes[i])] \o <<"!", "A", "1">>

\* outcomes of crypto.getRandomValues(new Uint8Array(24)) the model draws from
RandomDraws == {[i \in 1..TempPasswordBytes |-> b] : b \in {0, 10, 255}}

\* const tempPassword = providedTempPassword || genTempPassword();
ChooseTempPassword(provided, bytes) ==
    IF provided # NoText THEN provided ELSE GenTempPassword(bytes)

\* bug variant: any caller who has a profile row passes the role check
IsAdminRoleAnyProfile(role) == role # ""

\* (callerProfile?.role ?? "") !== "Admin" fails
IsAdminRole(role) == role = "Admin"

\* callerProfile?.role ?? "" for the row .maybeSingle() returned
CallerRole(table, callerId) ==
    IF callerId \in DOMAIN table THEN table[callerId].role ELSE ""

\* bug variant: the invite is sent whether or not it was asked for
InviteRequestedAlways(body) == TRUE

\* const { invite = false } = body: the flag the handler branches on
InviteRequested(body) == body.invite = "true"

\* reset mode: if (!email) -> MISSING_FIELDS
ResetFieldsPresent(body) == body.email # NoText

\* create mode: if (!email || !full_name) -> MISSING_FIELDS
CreateFieldsPresent(body) == body.email # NoText /\ body.full_name # None

\* bug variant: must_reset_password follows the invite flag instead of its
\* negation
ProfilePayloadFlagInverted(userId, body) ==
    ProfileRow(userId, body.full_name, body.email,
               IF body.role # None THEN body.role ELSE "Employee",
               IF body.status # None THEN body.status ELSE "active",
               body.home_store_id,
               body.invite = "true")

\* const profilePayload = { id, full_name, email, role: role || "Employee",
\*   status: status || "active", home_store_id: home_store_id || null,
\*   must_reset_password: invite ? false : true }
ProfilePayload(userId, body) ==
    ProfileRow(userId, body.full_name, body.email,
               IF body.role # None THEN body.role ELSE "Employee",
               IF body.status # None THEN body.status ELSE "active",
               body.home_store_id,
               ~InviteRequested(body))

\* bug variant: the bearer is looked at before the method
EntryResultBearerFirst(method, env, header) ==
    IF method = "OPTIONS"
    THEN [next |-> "done", resp |-> PreflightResponse, checks |-> <<"method">>]
    ELSE IF ExtractBearer(header) = <<>>
    THEN [next |-> "done", resp |-> ErrorResponse(401, "MISSING_AUTH"),
          checks |-> <<"bearer">>]
    ELSE IF method # "POST"
    THEN [next |-> "done", resp |-> ErrorResponse(405, "METHOD_NOT_ALLOWED"),
          checks |-> <<"bearer", "method">>]
    ELSE IF ~env
    THEN [next |-> "done",
          resp |-> WithDetails(ErrorResponse(500, "MISSING_ENV"), "env"),
          checks |-> <<"bearer", "method", "env">>]
    ELSE [next |-> "getUser", resp |-> NoResp,
          checks |-> <<"bearer", "method", "env">>]

\* The synchronous head of the handler, up to the first await: what it
\* answers (or that it goes on to auth.getUser) and the checks it evaluated.
EntryResult(method, env, header) ==
    IF method = "OPTIONS"
    THEN [next |-> "done", resp |-> PreflightResponse, checks |-> <<"method">>]
    ELSE IF method # "POST"
    THEN [next |-> "done", resp |-> ErrorResponse(405, "METHOD_NOT_ALLOWED"),
          checks |-> <<"method">>]
    ELSE IF ~env
    THEN [next |-> "done",
          resp |-> WithDetails(ErrorResponse(500, "MISSING_ENV"), "env"),
          checks |-> <<"method", "env">>]
    ELSE IF ExtractBearer(header) = <<>>
    THEN [next |-> "done", resp |-> ErrorResponse(401, "MISSING_AUTH"),
          checks |-> <<"method", "env", "bearer">>]
    ELSE [next |-> "getUser", resp |-> NoResp,
          checks |-> <<"method", "env", "bearer">>]

\* bug variant: a caller who is not an administrator is answered as if the
\* credential were invalid
RoleResultUnauthenticated(role) ==
    IF ~IsAdminRole(role)
    THEN [next |-> "done", resp |-> ErrorResponse(401, "FORBIDDEN")]
    ELSE [next |-> "parse", resp |-> NoResp]

\* After the caller's profile row was read: 403 unless the role is Admin.
RoleResult(role) ==
    IF ~IsAdminRole(role)
    THEN [next |-> "done", resp |-> ErrorResponse(403, "FORBIDDEN")]
    ELSE [next |-> "parse", resp |-> NoResp]

\* After req.json(): the body checks of both modes, in the handler's order.
BodyResult(body) ==
    IF body = Malformed
    THEN [next |-> "done", resp |-> ErrorResponse(400, "INVALID_JSON"),
          checks |-> <<"json">>]
    ELSE IF body.mode = "reset"
    THEN IF ~ResetFieldsPresent(body)
         THEN [next |-> "done", resp |-> ErrorResponse(400, "MISSING_FIELDS"),
               checks |-> <<"json", "fields">>]
         ELSE [next |-> "reset", resp |-> NoResp, checks |-> <<"json", "fields">>]
    ELSE IF ~CreateFieldsPresent(body)
         THEN [next |-> "done", resp |-> ErrorResponse(400, "MISSING_FIELDS"),
               checks |-> <<"json", "fields">>]
         ELSE [next |-> "createUser", resp |-> NoResp,
               checks |-> <<"json", "fields">>]

\* bug variant: a reset that went through hands back a link
ResetResultWithLink(out) ==
    CASE out = "ok" -> [ResetResponse EXCEPT !.resetLink = "link"]
      [] out = "err" -> WithDetails(ErrorResponse(500, "RESET_FAILED"), "resetErr")
      [] OTHER -> WithDetails(ErrorResponse(500, "RESET_EXCEPTION"), "String(e)")

\* After resetPasswordForEmail, inside try/catch: {resetLink: null} when no
\* error came back, RESET_FAILED for an error value, RESET_EXCEPTION for an
\* exception.
ResetResult(out) ==
    CASE out = "ok" -> ResetResponse
      [] out = "err" -> WithDetails(ErrorResponse(500, "RESET_FAILED"), "resetErr")
      [] OTHER -> WithDetails(ErrorResponse(500, "RESET_EXCEPTION"), "String(e)")

\* bug variant: inviteSent is set without looking at inviteErr
InviteSentIgnoringError(outcome) == outcome # "throw"

\* inviteUserByEmail inside try/catch: inviteSent only when no error came back
InviteSent(outcome) == outcome = "ok"

----------------------------------------------------------------------------
(* The console's tables and component state *)

StoreIds == {"store-1", "store-2", "store-3"}
\* the id the database generates for a store inserted without one
NewStoreId == "store-4"

StoreRow(id, store_name, status) ==
    [id |-> id, store_name |-> store_name, status |-> status]

InitialStores ==
    [i \in StoreIds |-> StoreRow(i, "Store", IF i = "store-3" THEN "inactive" ELSE "active")]

\* a row of user_store_access
Grant(user_id, store_id, assigned_by) ==
    [user_id |-> user_id, store_id |-> store_id, assigned_by |-> assigned_by]

InitialGrants ==
    {Grant(EmpId, "store-1", AdminId), Grant(EmpId, "store-2", AdminId)}

\* .from("user_store_access").select("store_id").eq("user_id", userId)
AccessOf(table, userId) == {g.store_id : g \in {h \in table : h.user_id = userId}}

\* .from("user_store_access").insert(rows)
InsertGrants(table, rows) == table \cup rows

\* .from("user_store_access").delete().eq("user_id", userId).in("store_id", storeIds)
DeleteGrants(table, userId, storeIds) ==
    {g \in table : ~(g.user_id = userId /\ g.store_id \in storeIds)}

\* .from("user_store_access").delete().eq("user_id", userId)
DeleteAllGrants(table, userId) == {g \in table : g.user_id # userId}

\* bug variant: the row is removed instead of being marked
UpdateStatusRemovingRow(table, id, status) ==
    [i \in DOMAIN table \ {id} |-> table[i]]

\* .from("user_profiles").update({status}).eq("id", id): no row, no change
UpdateStatus(table, id, status) ==
    [i \in DOMAIN table |-> IF i = id THEN [table[i] EXCEPT !.status = status]
                            ELSE table[i]]

\* .from("user_profiles").update(updatePayload).eq("id", form.id)
UpdateProfile(table, form) ==
    [i \in DOMAIN table |->
        IF i = form.id
        THEN [table[i] EXCEPT !.full_name = form.full_name, !.role = form.role,
                              !.status = form.status,
                              !.home_store_id = form.home_store_id,
                              !.must_reset_password = form.must_reset_password]
        ELSE table[i]]

\* EMPTY_FORM; the id of a form without one is "none", an empty text input
\* is "" (full_name) or the empty tuple (email)
EmptyForm ==
    [id |-> None, full_name |-> "", email |-> NoText, role |-> "Employee",
     status |-> "active", home_store_id |-> None, must_reset_password |-> FALSE]

\* loadUserDetail's setForm for the row it read
LoadedForm(row) ==
    [id |-> row.id,
     full_name |-> IF row.full_name = None THEN "" ELSE row.full_name,
     email |-> row.email, role |-> row.role, status |-> row.status,
     home_store_id |-> row.home_store_id,
     must_reset_password |-> row.must_reset_password]

\* handleSave's checks before its first await: the message setErr is given
\* ("none": the form passes)
SaveValidation(form) ==
    IF form.full_name = "" \/ form.email = NoText
    THEN "Full name and email are required."
    ELSE IF form.role = ""
    THEN "Role is required."
    ELSE IF form.status = ""
    THEN "Status is required."
    ELSE IF form.role # "Admin" /\ form.home_store_id = None
    THEN "Non-admin users must have a home store."
    ELSE None

\* the JSON body handleSave posts for a new user, as the endpoint reads it
CreateBody(form, inviteChecked) ==
    [mode |-> None, email |-> form.email, full_name |-> form.full_name,
     role |-> form.role, status |-> form.status,
     home_store_id |-> form.home_store_id,
     invite |-> IF inviteChecked THEN "true" ELSE "false",
     tempPassword |-> NoText]

\* bug variant: every selected store is inserted again
ToAddAll(initial, current) == current

\* const toAdd = [...current].filter((id) => !initial.has(id));
ToAdd(initial, current) == {id \in current : id \notin initial}

\* bug variant: every store of the baseline is deleted
ToRemoveAll(initial, current) == initial

\* const toRemove = [...initial].filter((id) => !current.has(id));
ToRemove(initial, current) == {id \in initial : id \notin current}

\* toAdd.map((store_id) => ({user_id: userId, store_id, assigned_by: adminId}))
GrantRows(userId, toAdd, adminId) == {Grant(userId, s, adminId) : s \in toAdd}

\* what the current operation has shown and done so far: the toasts, the
\* steps that failed, the writes to user_store_access it issued, whether it
\* entered syncStoreAccess and what user_store_access held when it did
NoTrace ==
    [toasts |-> <<>>, failed |-> {}, writes |-> <<>>, sync |-> FALSE, before |-> {}]

\* the Save or Deactivate that ended just before, as far as the next Save is
\* concerned
NoLast == [op |-> None, user |-> None, target |-> {}, clean |-> FALSE]

InitialUI ==
    [pc |-> "idle", op |-> None,
     users |-> {AdminId, EmpId},          \* the list loadUsers filled at mount
     selectedUserId |-> None, loadedFor |-> None,
     form |-> EmptyForm, assignedStores |-> {}, initialAssignedStores |-> {},
     inviteChecked |-> TRUE, err |-> None,
     adminId |-> AdminId,                 \* auth.profile?.id
     subject |-> None,                    \* the user the running handler works on
     syncInitial |-> {}, syncCurrent |-> {},  \* syncStoreAccess's arguments
     trace |-> NoTrace, last |-> NoLast]

----------------------------------------------------------------------------
(* AuthProvider and the route guards *)

\* the sessions the Supabase client can hold: none, or one of a user
Sessions == {None, AdminId, EmpId, GhostId}

\* calls of AuthProvider that can be awaiting their result at one time (boots
\* and profile queries together)
MaxInFlight == 2

\* the profile state when it is null
NoProfile ==
    [id |-> None, full_name |-> None, email |-> NoText, role |-> None,
     status |-> None, home_store_id |-> None]

\* .select("id, full_name, email, role, status, home_store_id").eq("id",
\* sess.user.id).single(): the selected columns of the user's row; no row is
\* an error of single()
SelectProfile(table, userId) ==
    IF userId \in DOMAIN table
    THEN [id |-> table[userId].id, full_name |-> table[userId].full_name,
          email |-> table[userId].email, role |-> table[userId].role,
          status |-> table[userId].status,
          home_store_id |-> table[userId].home_store_id]
    ELSE NoProfile

\* AuthProvider after its first render and effect: booting, the first boot
\* awaiting getSession, the subscription to onAuthStateChange in place.
\* client is the session the Supabase client holds (not part of the
\* component); loads are the profile queries awaiting their result, by user.
InitialAuth ==
    [booting |-> TRUE, session |-> None, error |-> None, profile |-> NoProfile,
     profileReady |-> FALSE, boots |-> 1, loads |-> <<>>, client |-> None]

\* what useAuth() exposes as user: session?.user ?? null
AuthUser(a) == a.session

\* the calls of AuthProvider awaiting a result
Awaiting(a) == a.boots + Len(a.loads)

\* loadProfile(sess) up to its first await: profileReady is dropped; without
\* a session the profile is cleared and profileReady set at once, with one
\* the query for the session's user is sent.
StartLoad(a, sess) ==
    IF sess = None
    THEN [a EXCEPT !.profile = NoProfile, !.profileReady = TRUE]
    ELSE [a EXCEPT !.profileReady = FALSE, !.loads = Append(@, sess)]

\* a sequence without its i-th element
RemoveAt(seq, i) == SubSeq(seq, 1, i - 1) \o SubSeq(seq, i + 1, Len(seq))

\* bug variant: any profile that has been loaded passes for an administrator's
RequireAdminViewAnyProfile(a) ==
    IF a.booting \/ ~a.profileReady THEN "loading"
    ELSE IF AuthUser(a) = None THEN "login"
    ELSE IF a.profile = NoProfile THEN "denied"
    ELSE "children"

\* RequireAdmin: Loading while booting or before the profile load was
\* attempted, a redirect to /login without a user, the access-denied message
\* unless profile?.role is Admin, the children otherwise.
RequireAdminView(a) ==
    IF a.booting \/ ~a.profileReady THEN "loading"
    ELSE IF AuthUser(a) = None THEN "login"
    ELSE IF a.profile.role # "Admin" THEN "denied"
    ELSE "children"

\* RequireAuth: Loading while booting, the Auth Error panel when an error is
\* set, a redirect to /login without a user, sign-out and redirect when the
\* loaded profile is not active, the children otherwise.
RequireAuthView(a) ==
    IF a.booting THEN "loading"
    ELSE IF a.error # None THEN "authError"
    ELSE IF AuthUser(a) = None THEN "login"
    ELSE IF a.profileReady /\ a.profile # NoProfile /\ a.profile.status # "active"
    THEN "inactive"
    ELSE "children"

\* what an /admin, /admin/stores or /admin/users route shows:
\* <RequireAuth><RequireAdmin><Page/></RequireAdmin></RequireAuth>
AdminRouteView(a) ==
    IF RequireAuthView(a) # "children" THEN RequireAuthView(a)
    ELSE IF RequireAdminView(a) # "children" THEN RequireAdminView(a)
    ELSE "adminPage"

----------------------------------------------------------------------------
(* State of a request slot *)

NoSnapshot == [users |-> <<>>, profiles |-> [i \in {} |-> i], grants |-> {}]

IdleSlot ==
    [pc |-> "idle", method |-> None, authHeader |-> NoHeader, body |-> Malformed,
     correlationHeader |-> None, uuid |-> None, correlationId |-> None,
     bearer |-> <<>>, callerId |-> None, userId |-> None, page |-> 0,
     tempPassword |-> NoText, resp |-> NoResp,
     checks |-> <<>>,       \* the precondition checks evaluated, in order
     calls |-> <<>>,        \* the platform calls awaited and how each ended
     pre |-> NoSnapshot]    \* accounts and profile rows when the request arrived

NoPrev ==
    [create |-> FALSE, email |-> NoText, full_name |-> None, ok |-> FALSE,
     code |-> None, id |-> None]

\* what is remembered of a finished request: only create requests that got
\* as far as calling createUser are remembered
Summary(slot) ==
    IF slot.pc \in {"done", "crashed"} /\ slot.calls # <<>>
       /\ \E i \in 1..Len(slot.calls) : slot.calls[i].op = "createUser"
    THEN [create |-> TRUE, email |-> slot.body.email,
          full_name |-> slot.body.full_name, ok |-> slot.resp.ok,
          code |-> slot.resp.code, id |-> slot.resp.id]
    ELSE NoPrev

Call(op, out) == [op |-> op, out |-> out]

\* the handler returns resp
Finish(slot, resp) ==
    [slot EXCEPT !.pc = "done", !.resp = WithCorrelation(resp, slot.correlationId)]

\* an awaited call threw outside every try/catch: the handler's promise
\* rejects and no response is built
Crash(slot, op) ==
    [slot EXCEPT !.pc = "crashed", !.calls = Append(@, Call(op, "throw"))]

Init ==
    /\ envOK \in BOOLEAN
    /\ authUsers = InitialUsers
    /\ hiddenBefore \in HiddenChoices
    /\ profiles = InitialProfiles
    /\ rq = [r \in Slots |-> IdleSlot]
    /\ prev = NoPrev
    /\ accessGrants = InitialGrants
    /\ stores = InitialStores
    /\ ui = InitialUI
    /\ auth = InitialAuth

----------------------------------------------------------------------------
(* The handler, one action per stretch of code between awaits *)

\* A request of the set reqs arrives at a free slot (index.ts:439).
Receive(r, reqs) ==
    /\ rq[r].pc = "idle"
    /\ \E q \in reqs :
          rq' = [rq EXCEPT ![r] =
                    [IdleSlot EXCEPT !.pc = "entry", !.method = q.method,
                                     !.authHeader = q.authHeader, !.body = q.body,
                                     !.correlationHeader = q.correlationHeader,
                                     !.uuid = q.uuid,
                                     !.pre = [users |-> authUsers,
                                              profiles |-> profiles,
                                              grants |-> accessGrants]]]
    /\ UNCHANGED <<auth, accessGrants, stores, ui, envOK, authUsers, hiddenBefore, profiles, prev>>

\* The runtime delivers the response (or reports the rejected promise) and the
\* invocation ends; record says whether the request is remembered in prev.
Respond(r, record) ==
    /\ rq[r].pc \in {"done", "crashed"}
    /\ rq' = [rq EXCEPT ![r] = IdleSlot]
    /\ prev' = IF record THEN Summary(rq[r]) ELSE prev
    /\ UNCHANGED <<auth, accessGrants, stores, ui, envOK, authUsers, hiddenBefore, profiles>>

\* index.ts:441-485: the correlation id, then the preflight, method,
\* environment and bearer checks.
Entry(r) ==
    /\ rq[r].pc = "entry"
    /\ LET res == EntryResult(rq[r].method, envOK, rq[r].authHeader)
           cid == CorrelationId(rq[r].correlationHeader, rq[r].uuid)
       IN
          rq' = [rq EXCEPT ![r].pc = res.next,
                           ![r].correlationId = cid,
                           ![r].resp = WithCorrelation(res.resp, cid),
                           ![r].checks = res.checks,
                           ![r].bearer = ExtractBearer(rq[r].authHeader)]
    /\ UNCHANGED <<auth, accessGrants, stores, ui, envOK, authUsers, hiddenBefore, profiles, prev>>

\* index.ts:488-501: await adminClient.auth.getUser(bearer).
GetUser(r) ==
    /\ rq[r].pc = "getUser"
    /\ \E out \in Outcomes :
          LET subject == TokenSubject(rq[r].bearer)
              s1 == [rq[r] EXCEPT !.checks = Append(@, "token")]
          IN
          rq' = [rq EXCEPT ![r] =
                    IF out = "throw" THEN Crash(rq[r], "getUser")
                    ELSE IF out = "err" \/ subject = None
                    THEN Finish([s1 EXCEPT !.calls = Append(@, Call("getUser", "err"))],
                                WithDetails(ErrorResponse(401, "INVALID_TOKEN"),
                                            "callerErr"))
                    ELSE [s1 EXCEPT !.pc = "lookup", !.callerId = subject,
                                    !.calls = Append(@, Call("getUser", "ok"))]]
    /\ UNCHANGED <<auth, accessGrants, stores, ui, envOK, authUsers, hiddenBefore, profiles, prev>>

\* index.ts:504-526: read the caller's role from user_profiles, then the
\* Admin check.
LookupProfile(r) ==
    /\ rq[r].pc = "lookup"
    /\ \E out \in Outcomes :
          LET res == RoleResult(CallerRole(profiles, rq[r].callerId))
              s1 == [rq[r] EXCEPT !.checks = Append(@, "lookup")]
          IN
          rq' = [rq EXCEPT ![r] =
                    IF out = "throw" THEN Crash(rq[r], "lookup")
                    ELSE IF out = "err"
                    THEN Finish([s1 EXCEPT !.calls = Append(@, Call("lookup", "err"))],
                                WithDetails(ErrorResponse(500, "PROFILE_LOOKUP_FAILED"),
                                            "profErr"))
                    ELSE [s1 EXCEPT !.pc = res.next,
                                    !.resp = WithCorrelation(res.resp, s1.correlationId),
                                    !.checks = Append(@, "role"),
                                    !.calls = Append(@, Call("lookup", "ok"))]]
    /\ UNCHANGED <<auth, accessGrants, stores, ui, envOK, authUsers, hiddenBefore, profiles, prev>>

\* index.ts:529-611: await req.json() inside try/catch, the mode switch, the
\* required fields of the mode, and the temporary password of create mode.
ParseBody(r) ==
    /\ rq[r].pc = "parse"
    /\ LET res == BodyResult(rq[r].body)
           s1 == [rq[r] EXCEPT !.pc = res.next,
                               !.resp = WithCorrelation(res.resp, rq[r].correlationId),
                               !.checks = @ \o res.checks]
       IN
       IF res.next = "createUser" /\ rq[r].body.tempPassword = NoText
       THEN \E bytes \in RandomDraws :
               rq' = [rq EXCEPT ![r] =
                         [s1 EXCEPT !.tempPassword =
                             ChooseTempPassword(rq[r].body.tempPassword, bytes)]]
       ELSE rq' = [rq EXCEPT ![r] =
                      IF res.next = "createUser"
                      THEN [s1 EXCEPT !.tempPassword =
                               ChooseTempPassword(rq[r].body.tempPassword, <<>>)]
                      ELSE s1]
    /\ UNCHANGED <<auth, accessGrants, stores, ui, envOK, authUsers, hiddenBefore, profiles, prev>>

\* index.ts:557-586: await resetPasswordForEmail inside try/catch.
ResetPassword(r) ==
    /\ rq[r].pc = "reset"
    /\ \E out \in Outcomes :
          rq' = [rq EXCEPT ![r] =
                    Finish([rq[r] EXCEPT !.calls = Append(@, Call("resetPassword", out))],
                           ResetResult(out))]
    /\ UNCHANGED <<auth, accessGrants, stores, ui, envOK, authUsers, hiddenBefore, profiles, prev>>

\* results of auth.admin.createUser: an account, an error value, an exception,
\* or a result carrying neither a user nor an error (index.ts:650)
CreateOutcomes == {"ok", "err", "throw", "empty"}

\* index.ts:614-621: await adminClient.auth.admin.createUser({email, password}).
\* The identity service refuses an email that is taken ("dup").
CreateUser(r) ==
    /\ rq[r].pc = "createUser"
    /\ \E out \in CreateOutcomes :
          LET taken == EmailTaken(authUsers, rq[r].body.email)
              newId == NextNewId(authUsers)
          IN
          CASE out = "throw" ->
                  /\ rq' = [rq EXCEPT ![r] = Crash(rq[r], "createUser")]
                  /\ UNCHANGED authUsers
            [] out = "empty" ->
                  /\ rq' = [rq EXCEPT ![r] =
                        Finish([rq[r] EXCEPT !.calls = Append(@, Call("createUser", "empty"))],
                               ErrorResponse(500, "CREATE_USER_FAILED"))]
                  /\ UNCHANGED authUsers
            [] out = "ok" /\ ~taken ->
                  /\ authUsers' = Append(authUsers,
                        [id |-> newId, email |-> rq[r].body.email,
                         password |-> rq[r].tempPassword])
                  /\ rq' = [rq EXCEPT ![r].pc = "upsert", ![r].userId = newId,
                                   ![r].calls = Append(@, Call("createUser", "ok"))]
            [] OTHER ->
                  /\ rq' = [rq EXCEPT ![r].pc = "listUsers", ![r].page = 1,
                                   ![r].calls = Append(@,
                                       Call("createUser", IF taken THEN "dup" ELSE "err"))]
                  /\ UNCHANGED authUsers
    /\ UNCHANGED <<auth, accessGrants, stores, ui, envOK, hiddenBefore, profiles, prev>>

\* index.ts:627-648: one turn of the fallback loop
\* for (page = 1; page <= 5 && !userId; page++) { listUsers; if (listErr) break; find }
\* and, once the loop is over without an id, CREATE_USER_FAILED.
ListUsers(r) ==
    /\ rq[r].pc = "listUsers"
    /\ \E out \in Outcomes :
          LET found == FindByEmail(
                           ListUsersPage(authUsers, hiddenBefore, rq[r].page, PerPage),
                           rq[r].body.email)
              s1 == [rq[r] EXCEPT !.calls = Append(@, Call("listUsers", out))]
          IN
          rq' = [rq EXCEPT ![r] =
                    IF out = "throw" THEN Crash(rq[r], "listUsers")
                    ELSE IF out = "err"
                    THEN Finish(s1, WithDetails(ErrorResponse(500, "CREATE_USER_FAILED"),
                                                "createErr"))
                    ELSE IF found # None
                    THEN [s1 EXCEPT !.pc = "upsert", !.userId = found]
                    ELSE IF rq[r].page + 1 <= MaxScanPages
                    THEN [s1 EXCEPT !.page = @ + 1]
                    ELSE Finish(s1, WithDetails(ErrorResponse(500, "CREATE_USER_FAILED"),
                                                "createErr"))]
    /\ UNCHANGED <<auth, accessGrants, stores, ui, envOK, authUsers, hiddenBefore, profiles, prev>>

\* index.ts:662-691 and 713-722: upsert the profile row; without an invite
\* the success response follows at once.
UpsertProfile(r) ==
    /\ rq[r].pc = "upsert"
    /\ \E out \in Outcomes :
          LET s1 == [rq[r] EXCEPT !.calls = Append(@, Call("upsert", out))] IN
          CASE out = "throw" ->
                  /\ rq' = [rq EXCEPT ![r] = Crash(rq[r], "upsert")]
                  /\ UNCHANGED profiles
            [] out = "err" ->
                  /\ rq' = [rq EXCEPT ![r] =
                        Finish(s1, WithDetails(ErrorResponse(500, "PROFILE_UPSERT_FAILED"),
                                               "upsertErr"))]
                  /\ UNCHANGED profiles
            [] OTHER ->
                  /\ profiles' = Upsert(profiles, ProfilePayload(rq[r].userId, rq[r].body))
                  /\ rq' = [rq EXCEPT ![r] =
                        IF InviteRequested(rq[r].body)
                        THEN [s1 EXCEPT !.pc = "invite"]
                        ELSE Finish(s1, SuccessResponse(rq[r].userId, FALSE,
                                                        rq[r].tempPassword))]
    /\ UNCHANGED <<auth, accessGrants, stores, ui, envOK, authUsers, hiddenBefore, prev>>

\* index.ts:691-722: await inviteUserByEmail inside try/catch, then the
\* success response.
SendInvite(r) ==
    /\ rq[r].pc = "invite"
    /\ \E out \in Outcomes :
          rq' = [rq EXCEPT ![r] =
                    Finish([rq[r] EXCEPT !.calls = Append(@, Call("invite", out))],
                           SuccessResponse(rq[r].userId, InviteSent(out),
                                           rq[r].tempPassword))]
    /\ UNCHANGED <<auth, accessGrants, stores, ui, envOK, authUsers, hiddenBefore, profiles, prev>>

\* Requests are served one after the other, in slot 1.
Handler(r) ==
    \/ Entry(r)
    \/ GetUser(r)
    \/ LookupProfile(r)
    \/ ParseBody(r)
    \/ ResetPassword(r)
    \/ CreateUser(r)
    \/ ListUsers(r)
    \/ UpsertProfile(r)
    \/ SendInvite(r)

Next ==
    \/ Receive(1, Requests)
    \/ Handler(1)
    \/ Respond(1, FALSE)

Spec == Init /\ [][Next]_vars

\* An administrator submits create requests for one user one after the other;
\* prev remembers how the previous one ended.
NextRetry ==
    \/ Receive(1, RetryRequests)
    \/ Entry(1)
    \/ GetUser(1)
    \/ LookupProfile(1)
    \/ ParseBody(1)
    \/ CreateUser(1)
    \/ ListUsers(1)
    \/ UpsertProfile(1)
    \/ SendInvite(1)
    \/ Respond(1, TRUE)

SpecRetry == Init /\ [][NextRetry]_vars

\* Two administrators' create requests for one unused email, one in each
\* slot, run concurrently: the runtime interleaves their awaited calls.  The
\* two bodies differ in the role so that the rows they write can be told
\* apart.
ConcurrentRequests(r) ==
    {[method |-> "POST", authHeader |-> <<"Bearer", " ", "tok-admin">>,
      body |-> [PlainCreate(NewEmail, "New Person") EXCEPT
                    !.role = IF r = 1 THEN "Employee" ELSE "Admin"],
      correlationHeader |-> None, uuid |-> IF r = 1 THEN "uuid-1" ELSE "uuid-2"]}

NextConcurrent ==
    \E r \in Slots :
        \/ Receive(r, ConcurrentRequests(r))
        \/ Entry(r)
        \/ GetUser(r)
        \/ LookupProfile(r)
        \/ ParseBody(r)
        \/ CreateUser(r)
        \/ ListUsers(r)
        \/ UpsertProfile(r)

InitConcurrent == Init /\ envOK

SpecConcurrent == InitConcurrent /\ [][NextConcurrent]_vars

----------------------------------------------------------------------------
(* The admin console (AdminUsersPage.tsx, the component at line 347), one  *)
(* action per stretch of handler code between awaits.  The controls are    *)
(* disabled while a handler runs, so handlers run one at a time.           *)

\* setErr(message): the inline error banner shows a message; which of the
\* page's messages it is is not told apart
Message == "message"

\* showSuccess / showError
Toast(u, kind) == [u EXCEPT !.trace.toasts = Append(@, kind)]

\* a step of the running handler failed (an error value or an exception)
Failed(u, step) == [u EXCEPT !.trace.failed = @ \cup {step}]

\* a write to user_store_access was issued
Issued(u, op, rows, out) ==
    [u EXCEPT !.trace.writes = Append(@, [op |-> op, rows |-> rows, out |-> out])]

\* a handler starts: nothing shown or done yet
Begin(u, op, subject) ==
    [u EXCEPT !.op = op, !.subject = subject, !.trace = NoTrace]

\* the handler returns (its finally block has run)
EndOp(u) == [u EXCEPT !.pc = "ended"]

\* await loadUsers(): the list is replaced, or setErr on an error value
LoadUsersResult(u, out, table) ==
    IF out = "ok" THEN [u EXCEPT !.users = DOMAIN table]
    ELSE [u EXCEPT !.err = Message]

\* the state the new-user branch of the selectedUserId effect and handleClear
\* both set
ClearedSelection(u) ==
    [u EXCEPT !.form = EmptyForm, !.assignedStores = {},
              !.initialAssignedStores = {}, !.err = None]

consoleFrame == <<envOK, hiddenBefore, rq, prev, auth>>

\* form values the administrator types or picks: the name and email of the
\* user to create, and a role, status and home store
FormNames == {"New Person"}
FormEmails == {NewEmail}
FormRoles == {"Admin", "Employee"}
FormStatuses == {"active"}
FormHomes == {None, "store-1"}

\* AdminUsersPage.tsx:460-472: one field of the form is edited (the email of
\* an existing user is read-only, line 954).  The invite checkbox is left
\* checked, as it is initially.
HandleFieldChange ==
    /\ ui.pc = "idle"
    /\ \/ \E v \in FormNames :
             /\ ui.form.id = None
             /\ ui' = [ui EXCEPT !.form.full_name = v, !.last = NoLast]
       \/ \E v \in FormEmails :
             /\ ui.form.id = None
             /\ ui' = [ui EXCEPT !.form.email = v, !.last = NoLast]
       \/ \E v \in FormRoles : ui' = [ui EXCEPT !.form.role = v, !.last = NoLast]
       \/ \E v \in FormStatuses : ui' = [ui EXCEPT !.form.status = v, !.last = NoLast]
       \/ \E v \in FormHomes :
             ui' = [ui EXCEPT !.form.home_store_id = v, !.last = NoLast]
    /\ UNCHANGED <<consoleFrame, authUsers, profiles, accessGrants, stores>>

\* AdminUsersPage.tsx:474-484.
ToggleStore(storeId) ==
    /\ ui.pc = "idle"
    /\ ui' = [ui EXCEPT !.assignedStores =
                            IF storeId \in @ THEN @ \ {storeId} ELSE @ \cup {storeId},
                        !.last = NoLast]
    /\ UNCHANGED <<consoleFrame, authUsers, profiles, accessGrants, stores>>

\* AdminUsersPage.tsx:486-496; the selectedUserId effect (444-456) then finds
\* nothing more to reset.
HandleClear ==
    /\ ui.pc = "idle"
    /\ ui' = [ClearedSelection(ui) EXCEPT !.selectedUserId = None,
                                         !.loadedFor = None,
                                         !.inviteChecked = TRUE,
                                         !.op = None, !.last = NoLast]
    /\ UNCHANGED <<consoleFrame, authUsers, profiles, accessGrants, stores>>

\* AdminUsersPage.tsx:906 and 444-456, 391-393: a row of the list is clicked,
\* the effect starts loadUserDetail.
SelectUser(userId) ==
    /\ ui.pc = "idle"
    /\ userId \in ui.users
    /\ userId # ui.selectedUserId
    /\ ui' = [ui EXCEPT !.selectedUserId = userId, !.loadedFor = userId,
                        !.err = None, !.pc = "loadProfile", !.op = None,
                        !.last = NoLast]
    /\ UNCHANGED <<consoleFrame, authUsers, profiles, accessGrants, stores>>

\* AdminUsersPage.tsx:395-416: the profile row is read.  An exception leaves
\* loadUserDetail through its finally block.
LoadProfile ==
    /\ ui.pc = "loadProfile"
    /\ \E out \in Outcomes :
          ui' = CASE out = "throw" -> [ui EXCEPT !.pc = "idle"]
                  [] out = "err" ->
                        [ui EXCEPT !.pc = "loadAccess",
                                   !.err = Message]
                  [] OTHER ->
                        IF ui.selectedUserId \in DOMAIN profiles
                        THEN [ui EXCEPT !.pc = "loadAccess",
                                        !.form = LoadedForm(profiles[ui.selectedUserId])]
                        ELSE [ui EXCEPT !.pc = "loadAccess", !.err = Message]
    /\ UNCHANGED <<consoleFrame, authUsers, profiles, accessGrants, stores>>

\* AdminUsersPage.tsx:418-434: the user's access rows are read; they become
\* the selection and its baseline.
LoadAccess ==
    /\ ui.pc = "loadAccess"
    /\ \E out \in Outcomes :
          ui' = CASE out = "throw" -> [ui EXCEPT !.pc = "idle"]
                  [] out = "err" ->
                        [ui EXCEPT !.pc = "idle",
                                   !.err = Message]
                  [] OTHER ->
                        [ui EXCEPT !.pc = "idle",
                                   !.assignedStores =
                                       AccessOf(accessGrants, ui.selectedUserId),
                                   !.initialAssignedStores =
                                       AccessOf(accessGrants, ui.selectedUserId)]
    /\ UNCHANGED <<consoleFrame, authUsers, profiles, accessGrants, stores>>

\* React commits the state a handler left and runs the selectedUserId effect
\* (AdminUsersPage.tsx:444-456) when the selection changed.
Settle ==
    /\ ui.pc = "ended"
    /\ LET u == [ui EXCEPT !.trace = NoTrace, !.op = None, !.subject = None,
                           !.syncInitial = {}, !.syncCurrent = {},
                           !.loadedFor = ui.selectedUserId,
                           !.last = IF ui.op \in {"save", "deactivate"} /\ ui.form.id # None
                                    THEN [op |-> ui.op, user |-> ui.form.id,
                                          target |-> ui.assignedStores,
                                          clean |-> /\ ui.trace.failed = {}
                                                    /\ ui.trace.toasts = <<"success">>]
                                    ELSE NoLast]
       IN
       ui' = IF ui.selectedUserId = ui.loadedFor THEN [u EXCEPT !.pc = "idle"]
             ELSE IF ui.selectedUserId = None
             THEN [ClearedSelection(u) EXCEPT !.pc = "idle"]
             ELSE [u EXCEPT !.pc = "loadProfile", !.err = None]
    /\ UNCHANGED <<consoleFrame, authUsers, profiles, accessGrants, stores>>

\* syncStoreAccess is entered (AdminUsersPage.tsx:505-517): its arguments are
\* bound and the first write it has to make, if any, is its next step.
EnterSync(u, userId, initial, current) ==
    [u EXCEPT !.subject = userId, !.syncInitial = initial, !.syncCurrent = current,
              !.trace.sync = TRUE, !.trace.before = accessGrants,
              !.pc = IF ToAdd(initial, current) # {} THEN "syncInsert"
                     ELSE IF ToRemove(initial, current) # {} THEN "syncDelete"
                     ELSE "saveLoadUsers"]

\* bug variant: the baseline is left as it was loaded
BaselineAfterSyncKept(initial, current) == initial

\* setInitialAssignedStores(new Set(current)) at the end of syncStoreAccess
BaselineAfterSync(initial, current) == current

\* AdminUsersPage.tsx:546-570: the form is checked; a form that passes goes on
\* to the new-user or the existing-user branch.
SaveStart ==
    /\ ui.pc = "idle"
    /\ LET u == [Begin(ui, "save", ui.form.id) EXCEPT !.err = SaveValidation(ui.form)]
       IN
       ui' = IF SaveValidation(ui.form) # None THEN EndOp(u)
             ELSE IF ui.form.id = None THEN [u EXCEPT !.pc = "saveSession"]
             ELSE [u EXCEPT !.pc = "saveUpdate"]
    /\ UNCHANGED <<consoleFrame, authUsers, profiles, accessGrants, stores>>

\* AdminUsersPage.tsx:572-578 (and 674-680 for an exception).
SaveGetSession ==
    /\ ui.pc = "saveSession"
    /\ \E out \in Outcomes :
          ui' = CASE out = "ok" -> [ui EXCEPT !.pc = "saveFetch"]
                  [] out = "err" ->
                        EndOp([Failed(ui, "session") EXCEPT !.err = Message])
                  [] OTHER ->
                        EndOp([Failed(ui, "session") EXCEPT
                                  !.err = Message])
    /\ UNCHANGED <<consoleFrame, authUsers, profiles, accessGrants, stores>>

\* what the endpoint call may come to: a success envelope with the id, a
\* failure (status not ok, ok false, or no id), an exception (fetch or
\* res.json() threw)
FetchOutcomes == {"ok", "error", "throw"}

\* AdminUsersPage.tsx:580-636: the create request is posted.  On success the
\* endpoint has made sure of the account and written the profile row
\* (index.ts:614-674); syncStoreAccess(newUserId, new Set(), assignedStores)
\* is entered.
SaveFetch ==
    /\ ui.pc = "saveFetch"
    /\ \E out \in FetchOutcomes :
          LET body == CreateBody(ui.form, ui.inviteChecked)
              taken == EmailTaken(authUsers, body.email)
              newUserId ==
                  IF taken
                  THEN FindByEmail([i \in 1..Len(authUsers) |-> authUsers[i]], body.email)
                  ELSE NextNewId(authUsers)
          IN
          CASE out = "ok" ->
                  /\ taken \/ Len(authUsers) < Len(InitialUsers) + Len(NewIds)
                  /\ authUsers' =
                        IF taken THEN authUsers
                        ELSE Append(authUsers,
                                    [id |-> newUserId, email |-> body.email,
                                     password |-> GenTempPassword(
                                         [i \in 1..TempPasswordBytes |-> 0])])
                  /\ profiles' = Upsert(profiles, ProfilePayload(newUserId, body))
                  /\ ui' = EnterSync(ui, newUserId, {}, ui.assignedStores)
            [] out = "error" ->
                  /\ ui' = EndOp([Toast(Failed(ui, "endpoint"), "error") EXCEPT
                                     !.err = Message])
                  /\ UNCHANGED <<authUsers, profiles>>
            [] OTHER ->
                  /\ ui' = EndOp([Failed(ui, "endpoint") EXCEPT
                                     !.err = Message])
                  /\ UNCHANGED <<authUsers, profiles>>
    /\ UNCHANGED <<consoleFrame, accessGrants, stores>>

\* AdminUsersPage.tsx:645-668: the profile row of an existing user is
\* updated, then syncStoreAccess(form.id, initialAssignedStores,
\* assignedStores) is entered.
SaveUpdate ==
    /\ ui.pc = "saveUpdate"
    /\ \E out \in Outcomes :
          CASE out = "ok" ->
                  /\ profiles' = UpdateProfile(profiles, ui.form)
                  /\ ui' = EnterSync(ui, ui.form.id, ui.initialAssignedStores,
                                     ui.assignedStores)
            [] out = "err" ->
                  /\ ui' = EndOp([Toast(Failed(ui, "update"), "error") EXCEPT
                                     !.err = Message])
                  /\ UNCHANGED profiles
            [] OTHER ->
                  /\ ui' = EndOp([Failed(ui, "update") EXCEPT
                                     !.err = Message])
                  /\ UNCHANGED profiles
    /\ UNCHANGED <<consoleFrame, authUsers, accessGrants, stores>>

\* the end of syncStoreAccess (AdminUsersPage.tsx:541): the baseline becomes
\* the selection, and handleSave goes on to loadUsers
LeaveSync(u) ==
    [u EXCEPT !.initialAssignedStores =
                  BaselineAfterSync(u.syncInitial, u.syncCurrent),
              !.pc = "saveLoadUsers"]

\* AdminUsersPage.tsx:517-528: the batched insert of the additions.  An error
\* value makes syncStoreAccess return at once; an exception reaches the catch
\* block of handleSave (674-678).
SyncInsert ==
    /\ ui.pc = "syncInsert"
    /\ \E out \in Outcomes :
          LET rows == GrantRows(ui.subject,
                                ToAdd(ui.syncInitial, ui.syncCurrent), ui.adminId)
              u == Issued(ui, "insert", rows, out)
          IN
          CASE out = "ok" ->
                  /\ accessGrants' = InsertGrants(accessGrants, rows)
                  /\ ui' = IF ToRemove(ui.syncInitial, ui.syncCurrent) # {}
                           THEN [u EXCEPT !.pc = "syncDelete"]
                           ELSE LeaveSync(u)
            [] out = "err" ->
                  /\ ui' = [Failed(u, "grantInsert") EXCEPT
                               !.err = Message,
                               !.pc = "saveLoadUsers"]
                  /\ UNCHANGED accessGrants
            [] OTHER ->
                  /\ ui' = EndOp([Failed(u, "grantInsert") EXCEPT
                                     !.err = Message])
                  /\ UNCHANGED accessGrants
    /\ UNCHANGED <<consoleFrame, authUsers, profiles, stores>>

\* AdminUsersPage.tsx:530-541: the batched delete of the removals.  After an
\* error value syncStoreAccess still sets the baseline.
SyncDelete ==
    /\ ui.pc = "syncDelete"
    /\ \E out \in Outcomes :
          LET gone == ToRemove(ui.syncInitial, ui.syncCurrent)
              u == Issued(ui, "delete",
                          {Grant(ui.subject, s, None) : s \in gone}, out)
          IN
          CASE out = "ok" ->
                  /\ accessGrants' = DeleteGrants(accessGrants, ui.subject, gone)
                  /\ ui' = LeaveSync(u)
            [] out = "err" ->
                  /\ ui' = LeaveSync([Failed(u, "grantDelete") EXCEPT
                                         !.err = Message])
                  /\ UNCHANGED accessGrants
            [] OTHER ->
                  /\ ui' = EndOp([Failed(u, "grantDelete") EXCEPT
                                     !.err = Message])
                  /\ UNCHANGED accessGrants
    /\ UNCHANGED <<consoleFrame, authUsers, profiles, stores>>

\* AdminUsersPage.tsx:637-642 and 669-672: loadUsers, then the new-user
\* branch selects the new user and clears the error; both branches show the
\* success toast.
SaveLoadUsers ==
    /\ ui.pc = "saveLoadUsers"
    /\ \E out \in Outcomes :
          ui' = IF out = "throw"
                THEN EndOp([ui EXCEPT !.err = Message])
                ELSE LET u == LoadUsersResult(ui, out, profiles) IN
                     IF ui.form.id = None
                     THEN EndOp(Toast([u EXCEPT !.selectedUserId = ui.subject,
                                                !.err = None], "success"))
                     ELSE EndOp(Toast(u, "success"))
    /\ UNCHANGED <<consoleFrame, authUsers, profiles, accessGrants, stores>>

\* AdminUsersPage.tsx:1093-1132: the buttons under the form besides Save and
\* Clear are rendered for a form that has an id, the lifecycle buttons by the
\* status the form shows.
ButtonShown(form, op) ==
    /\ form.id # None
    /\ CASE op = "deactivate" -> form.status = "active"
         [] op = "reactivate" -> form.status = "inactive"
         [] op = "softDelete" -> form.status # "deleted"
         [] OTHER -> TRUE

\* AdminUsersPage.tsx:683-690.
ResetStart ==
    /\ ui.pc = "idle"
    /\ ButtonShown(ui.form, "reset")
    /\ ui' = IF ui.form.email = NoText
             THEN EndOp([Begin(ui, "reset", ui.form.id) EXCEPT
                            !.err = Message])
             ELSE [Begin(ui, "reset", ui.form.id) EXCEPT
                      !.err = None, !.pc = "resetSession"]
    /\ UNCHANGED <<consoleFrame, authUsers, profiles, accessGrants, stores>>

\* AdminUsersPage.tsx:692-698 (and 746-752 for an exception).
ResetGetSession ==
    /\ ui.pc = "resetSession"
    /\ \E out \in Outcomes :
          ui' = CASE out = "ok" -> [ui EXCEPT !.pc = "resetFetch"]
                  [] out = "err" ->
                        EndOp([Failed(ui, "session") EXCEPT !.err = Message])
                  [] OTHER ->
                        EndOp([Failed(ui, "session") EXCEPT
                                  !.err = Message])
    /\ UNCHANGED <<consoleFrame, authUsers, profiles, accessGrants, stores>>

\* AdminUsersPage.tsx:700-752: the reset request is posted.
ResetFetch ==
    /\ ui.pc = "resetFetch"
    /\ \E out \in FetchOutcomes :
          ui' = CASE out = "ok" -> EndOp(Toast([ui EXCEPT !.err = None], "success"))
                  [] out = "error" ->
                        EndOp([Toast(Failed(ui, "reset"), "error") EXCEPT
                                  !.err = Message])
                  [] OTHER ->
                        EndOp([Failed(ui, "reset") EXCEPT
                                  !.err = Message])
    /\ UNCHANGED <<consoleFrame, authUsers, profiles, accessGrants, stores>>

\* The head of handleDeactivate (759-770), handleReactivate (806-813) and
\* handleSoftDelete (839-850): no user selected is an inline error; a
\* confirmation that is declined leaves everything as it is.
StatusStart(op, asks, next) ==
    /\ ui.pc = "idle"
    /\ ButtonShown(ui.form, op)
    /\ \E confirmed \in (IF asks THEN BOOLEAN ELSE {TRUE}) :
          ui' = IF ui.form.id = None
                THEN EndOp([Begin(ui, op, None) EXCEPT !.err = Message])
                ELSE IF ~confirmed THEN ui
                ELSE [Begin(ui, op, ui.form.id) EXCEPT !.err = None, !.pc = next]
    /\ UNCHANGED <<consoleFrame, authUsers, profiles, accessGrants, stores>>

DeactivateStart == StatusStart("deactivate", TRUE, "deactUpdate")

\* AdminUsersPage.tsx:773-781: status becomes inactive.  handleDeactivate has
\* a finally block but no catch: an exception ends it with nothing shown.
DeactivateUpdate ==
    /\ ui.pc = "deactUpdate"
    /\ \E out \in Outcomes :
          CASE out = "ok" ->
                  /\ profiles' = UpdateStatus(profiles, ui.form.id, "inactive")
                  /\ ui' = [ui EXCEPT !.pc = "deactDelete"]
            [] out = "err" ->
                  /\ ui' = EndOp([Failed(ui, "deactivate") EXCEPT
                                     !.err = Message])
                  /\ UNCHANGED profiles
            [] OTHER ->
                  /\ ui' = EndOp(Failed(ui, "deactivate"))
                  /\ UNCHANGED profiles
    /\ UNCHANGED <<consoleFrame, authUsers, accessGrants, stores>>

\* The removal of all of the user's access rows in handleDeactivate (784-792)
\* and handleSoftDelete (864-871): an error value is logged to the browser
\* console and the handler goes on.
StatusDelete(pc, next) ==
    /\ ui.pc = pc
    /\ \E out \in Outcomes :
          LET u == Issued(ui, "delete",
                          {Grant(ui.form.id, s, None) :
                              s \in AccessOf(accessGrants, ui.form.id)}, out)
          IN
          CASE out = "ok" ->
                  /\ accessGrants' = DeleteAllGrants(accessGrants, ui.form.id)
                  /\ ui' = [u EXCEPT !.pc = next]
            [] out = "err" ->
                  /\ ui' = [Failed(u, "grantDelete") EXCEPT !.pc = next]
                  /\ UNCHANGED accessGrants
            [] OTHER ->
                  /\ ui' = EndOp(Failed(u, "grantDelete"))
                  /\ UNCHANGED accessGrants
    /\ UNCHANGED <<consoleFrame, authUsers, profiles, stores>>

DeactivateDelete == StatusDelete("deactDelete", "deactLoadUsers")

\* AdminUsersPage.tsx:795-800: loadUsers, the same user stays selected, the
\* success toast.
DeactivateLoadUsers ==
    /\ ui.pc = "deactLoadUsers"
    /\ \E out \in Outcomes :
          ui' = IF out = "throw" THEN EndOp(ui)
                ELSE EndOp(Toast([LoadUsersResult(ui, out, profiles) EXCEPT
                                     !.selectedUserId = ui.form.id], "success"))
    /\ UNCHANGED <<consoleFrame, authUsers, profiles, accessGrants, stores>>

ReactivateStart == StatusStart("reactivate", FALSE, "reactUpdate")

\* AdminUsersPage.tsx:815-826: status becomes active.
ReactivateUpdate ==
    /\ ui.pc = "reactUpdate"
    /\ \E out \in Outcomes :
          CASE out = "ok" ->
                  /\ profiles' = UpdateStatus(profiles, ui.form.id, "active")
                  /\ ui' = [ui EXCEPT !.pc = "reactLoadUsers"]
            [] out = "err" ->
                  /\ ui' = EndOp([Toast(Failed(ui, "reactivate"), "error") EXCEPT
                                     !.err = Message])
                  /\ UNCHANGED profiles
            [] OTHER ->
                  /\ ui' = EndOp(Failed(ui, "reactivate"))
                  /\ UNCHANGED profiles
    /\ UNCHANGED <<consoleFrame, authUsers, accessGrants, stores>>

\* AdminUsersPage.tsx:828-833.
ReactivateLoadUsers ==
    /\ ui.pc = "reactLoadUsers"
    /\ \E out \in Outcomes :
          ui' = IF out = "throw" THEN EndOp(ui)
                ELSE EndOp(Toast([LoadUsersResult(ui, out, profiles) EXCEPT
                                     !.selectedUserId = ui.form.id], "success"))
    /\ UNCHANGED <<consoleFrame, authUsers, profiles, accessGrants, stores>>

SoftDeleteStart == StatusStart("softDelete", TRUE, "delUpdate")

\* AdminUsersPage.tsx:853-861: status becomes deleted.
SoftDeleteUpdate ==
    /\ ui.pc = "delUpdate"
    /\ \E out \in Outcomes :
          CASE out = "ok" ->
                  /\ profiles' = UpdateStatus(profiles, ui.form.id, "deleted")
                  /\ ui' = [ui EXCEPT !.pc = "delDelete"]
            [] out = "err" ->
                  /\ ui' = EndOp([Failed(ui, "softDelete") EXCEPT
                                     !.err = Message])
                  /\ UNCHANGED profiles
            [] OTHER ->
                  /\ ui' = EndOp(Failed(ui, "softDelete"))
                  /\ UNCHANGED profiles
    /\ UNCHANGED <<consoleFrame, authUsers, accessGrants, stores>>

SoftDeleteDelete == StatusDelete("delDelete", "delLoadUsers")

\* AdminUsersPage.tsx:874-880: loadUsers, the success toast, handleClear.
SoftDeleteLoadUsers ==
    /\ ui.pc = "delLoadUsers"
    /\ \E out \in Outcomes :
          ui' = IF out = "throw" THEN EndOp(ui)
                ELSE EndOp([ClearedSelection(
                                Toast(LoadUsersResult(ui, out, profiles), "success"))
                            EXCEPT !.selectedUserId = None, !.inviteChecked = TRUE])
    /\ UNCHANGED <<consoleFrame, authUsers, profiles, accessGrants, stores>>

\* the store form as submitted: the id ("none" for a new store) and the
\* trimmed name; "" stands for any of the three required fields left empty
StoreForms ==
    {[id |-> None, store_name |-> ""], [id |-> None, store_name |-> "Annex"],
     [id |-> "store-3", store_name |-> "Store"]}

\* AdminStoresPage.tsx:78-134: the required fields are checked, then a store
\* without an id is inserted and a store with one is upserted; the payload
\* carries no status.  The stores page is another route: the users page is
\* not mounted while it is open, so it is in its initial state here.
SaveStore ==
    /\ ui.pc = "idle"
    /\ ui.selectedUserId = None /\ ui.form = EmptyForm
    /\ ui.assignedStores = {} /\ ui.err = None
    /\ \E f \in StoreForms, out \in Outcomes :
          stores' =
              IF f.store_name = "" \/ out # "ok" THEN stores
              ELSE IF f.id = None
              THEN [i \in DOMAIN stores \cup {NewStoreId} |->
                       IF i = NewStoreId THEN StoreRow(i, f.store_name, "active")
                       ELSE stores[i]]
              ELSE [i \in DOMAIN stores \cup {f.id} |->
                       IF i = f.id
                       THEN StoreRow(i, f.store_name,
                                     IF i \in DOMAIN stores THEN stores[i].status
                                     ELSE "active")
                       ELSE stores[i]]
    /\ UNCHANGED <<consoleFrame, authUsers, profiles, accessGrants, ui>>

\* An administrator creates a user in the console and goes on working on
\* that user; no request reaches the endpoint other than the console's own.
NextConsole ==
    \/ HandleFieldChange
    \/ ToggleStore("store-1")
    \/ HandleClear
    \/ SelectUser(NewIds[1])
    \/ LoadProfile
    \/ LoadAccess
    \/ Settle
    \/ SaveStart
    \/ SaveGetSession
    \/ SaveFetch
    \/ SaveUpdate
    \/ SyncInsert
    \/ SyncDelete
    \/ SaveLoadUsers
    \/ ResetStart
    \/ ResetGetSession
    \/ ResetFetch
    \/ DeactivateStart
    \/ DeactivateUpdate
    \/ DeactivateDelete
    \/ DeactivateLoadUsers
    \/ ReactivateStart
    \/ ReactivateUpdate
    \/ ReactivateLoadUsers
    \/ SoftDeleteStart
    \/ SoftDeleteUpdate
    \/ SoftDeleteDelete
    \/ SoftDeleteLoadUsers
    \/ SaveStore

InitConsole == Init /\ envOK /\ hiddenBefore = 0

SpecConsole == InitConsole /\ [][NextConsole]_vars

\* An administrator selects the existing employee and edits the stores
\* assigned to them, saving as often as they like.
NextSync ==
    \/ SelectUser(EmpId)
    \/ LoadProfile
    \/ LoadAccess
    \/ \E s \in StoreIds : ToggleStore(s)
    \/ SaveStart
    \/ SaveUpdate
    \/ SyncInsert
    \/ SyncDelete
    \/ SaveLoadUsers
    \/ Settle

SpecSync == InitConsole /\ [][NextSync]_vars

----------------------------------------------------------------------------
(* AuthProvider, one action per callback or resumption after an await *)

authFrame ==
    <<envOK, authUsers, hiddenBefore, profiles, rq, prev, accessGrants, stores, ui>>

\* results of an awaited call of the Supabase client
AuthOutcomes == {"ok", "err", "throw"}

\* AuthProvider.tsx:85-111: boot resumes after getSession (a returned error
\* is thrown at line 91, a timeout rejects): with the client's session it
\* sets the session, ends booting and starts loadProfile; in the catch it
\* clears the session, sets the error and marks the profile ready.
BootDone ==
    /\ auth.boots > 0
    /\ \E out \in AuthOutcomes :
          LET a == [auth EXCEPT !.boots = @ - 1, !.booting = FALSE]
          IN
          auth' = IF out = "ok"
                  THEN StartLoad([a EXCEPT !.session = auth.client], auth.client)
                  ELSE [a EXCEPT !.session = None, !.error = "message",
                                 !.profile = NoProfile, !.profileReady = TRUE]
    /\ UNCHANGED authFrame

\* AuthProvider.tsx:118-123: the client's session changes (sign-in, sign-out,
\* refresh) and the onAuthStateChange callback sets it and starts loadProfile.
AuthStateChange ==
    /\ \E sess \in Sessions :
          /\ Awaiting(auth) + (IF sess = None THEN 0 ELSE 1) <= MaxInFlight
          /\ auth' = StartLoad([auth EXCEPT !.client = sess, !.session = sess], sess)
    /\ UNCHANGED authFrame

\* AuthProvider.tsx:56-76: loadProfile resumes after its query: the row that
\* came back becomes the profile, an error or an exception clears it, and
\* profileReady is set.  Queries complete in any order.
LoadDone ==
    /\ \E i \in 1..Len(auth.loads), out \in AuthOutcomes :
          auth' = [auth EXCEPT
                      !.loads = RemoveAt(@, i),
                      !.profile = IF out = "ok"
                                  THEN SelectProfile(profiles, auth.loads[i])
                                  ELSE NoProfile,
                      !.profileReady = TRUE]
    /\ UNCHANGED authFrame

\* AuthProvider.tsx:141-144 with RequireAuth.tsx:18: the Retry button of the
\* Auth Error panel bumps retryNonce and calls boot; the render that follows
\* finds the effect's dependency changed and runs the effect again
\* (114-130), which calls boot a second time.
Retry ==
    /\ RequireAuthView(auth) = "authError"
    /\ Awaiting(auth) + 2 <= MaxInFlight
    /\ auth' = [auth EXCEPT !.booting = TRUE, !.error = None, !.boots = @ + 2]
    /\ UNCHANGED authFrame

NextAuth == BootDone \/ AuthStateChange \/ LoadDone \/ Retry

SpecAuth == InitConsole /\ [][NextAuth]_vars

----------------------------------------------------------------------------
(* Vocabulary of the properties *)

\* the request in slot 1 and what is known of it
R == rq[1]
Answered == R.pc = "done"
Ended == R.pc \in {"done", "crashed"}
InFlight == R.pc # "idle"

\* the subject the request's bearer credential was issued to
Caller == TokenSubject(ExtractBearer(R.authHeader))

\* the caller's role in user_profiles when the request arrived
CallerRoleAtReceipt ==
    IF Caller \in DOMAIN R.pre.profiles THEN R.pre.profiles[Caller].role ELSE ""

\* the credential resolves to a caller who is not an administrator
NonAdminCaller == Caller # None /\ CallerRoleAtReceipt # "Admin"

\* the request carries no credential: header absent, empty, or only the prefix
NoCredential ==
    R.authHeader \in {NoHeader, <<>>, <<"Bearer">>, <<"Bearer", " ">>}

BodyParses == R.body.mode # "<malformed>"
BodyComplete ==
    /\ BodyParses
    /\ R.body.email # NoText
    /\ R.body.mode # "reset" => R.body.full_name # None

\* how the awaited call op of the request ended ("none": it was not made)
CallOutcome(op) ==
    IF \E i \in 1..Len(R.calls) : R.calls[i].op = op
    THEN R.calls[CHOOSE i \in 1..Len(R.calls) : R.calls[i].op = op].out
    ELSE None

Times(op) == Cardinality({i \in 1..Len(R.calls) : R.calls[i].op = op})

\* no identity-service mutation and no database write since the request arrived
NothingChanged ==
    /\ authUsers = R.pre.users
    /\ profiles = R.pre.profiles
    /\ \A i \in 1..Len(R.calls) :
          R.calls[i].op \in {"createUser", "upsert", "invite", "resetPassword"}
             => R.calls[i].out # "ok"

IsPrefix(s, t) == Len(s) <= Len(t) /\ SubSeq(t, 1, Len(s)) = s

----------------------------------------------------------------------------
(* C1 *)

\* C1 as stated: every request whose bearer resolves to a caller who is not an
\* administrator (no profile row included) is answered 403 / ok=false /
\* FORBIDDEN and changes neither the identity service nor the database.
\* (Read in the claim's favour: preflights and a server without its
\* environment are left out.)
C1_Original ==
    (Answered /\ NonAdminCaller /\ R.method # "OPTIONS" /\ envOK)
        => /\ R.resp.status = 403
           /\ ~R.resp.ok
           /\ R.resp.code = "FORBIDDEN"
           /\ NothingChanged

\* C1 amended: a request of a non-administrator never changes the identity
\* service or the database, whatever its method and however far it gets; and
\* when it is a POST on a configured server whose token validation and
\* caller-profile lookup both returned without error, the answer is
\* 403 / ok=false / FORBIDDEN.
C1_NonAdminForbidden ==
    (InFlight /\ NonAdminCaller)
        => /\ NothingChanged
           /\ Cardinality(DOMAIN profiles) = Cardinality(DOMAIN R.pre.profiles)
           /\ R.pc \notin {"parse", "reset", "createUser", "listUsers", "upsert", "invite"}
           /\ (Ended /\ R.method = "POST" /\ envOK
               /\ CallOutcome("getUser") = "ok" /\ CallOutcome("lookup") = "ok")
                 => /\ Answered
                    /\ R.resp.status = 403
                    /\ R.resp.envelope /\ ~R.resp.ok
                    /\ R.resp.code = "FORBIDDEN"

\* a caller without a profile row has posted a valid create body and got 403
C1_Witness ==
    /\ Answered /\ Caller = GhostId
    /\ R.body = PlainCreate(NewEmail, "New Person")
    /\ R.resp.status = 403

----------------------------------------------------------------------------
(* C2 *)

CheckOrder ==
    <<"method", "env", "bearer", "token", "lookup", "role", "json", "fields">>

\* the preconditions of the claim, as facts about the request
Pre1 == R.method = "POST"
Pre2 == Caller # None /\ CallOutcome("getUser") # "err"
Pre3 == CallerRoleAtReceipt = "Admin"
Pre4 == BodyComplete

\* C2 as stated: the answer is the failure of the first of (1) method is POST,
\* (2) bearer present and valid, (3) caller is Admin, (4) body parses and is
\* complete that does not hold; so (3)+(4) violated gives 403 and (1)+(2)
\* violated gives 405.  (Read in the claim's favour: preflights and a server
\* without its environment are left out.)
C2_Original ==
    (Answered /\ R.method # "OPTIONS" /\ envOK) =>
        /\ ~Pre1 => R.resp.status = 405
        /\ (Pre1 /\ ~Pre2) => R.resp.status = 401
        /\ (Pre1 /\ Pre2 /\ ~Pre3) => R.resp.status = 403
        /\ (Pre1 /\ Pre2 /\ Pre3 /\ ~Pre4) => R.resp.status = 400

\* the check whose failure an error code reports
CheckOfCode(code) ==
    CASE code = "METHOD_NOT_ALLOWED" -> "method"
      [] code = "MISSING_ENV" -> "env"
      [] code = "MISSING_AUTH" -> "bearer"
      [] code = "INVALID_TOKEN" -> "token"
      [] code = "PROFILE_LOOKUP_FAILED" -> "lookup"
      [] code = "FORBIDDEN" -> "role"
      [] code = "INVALID_JSON" -> "json"
      [] code = "MISSING_FIELDS" -> "fields"
      [] OTHER -> None

\* whether a check of the fixed order fails for the request
CheckFails(c) ==
    CASE c = "method" -> R.method # "POST"
      [] c = "env" -> ~envOK
      [] c = "bearer" -> ExtractBearer(R.authHeader) = <<>>
      [] c = "token" -> Caller = None \/ CallOutcome("getUser") # "ok"
      [] c = "lookup" -> CallOutcome("lookup") # "ok"
      [] c = "role" -> CallerRoleAtReceipt # "Admin"
      [] c = "json" -> ~BodyParses
      [] c = "fields" -> ~BodyComplete
      [] OTHER -> FALSE

StatusOfCheck(c) ==
    CASE c = "method" -> 405
      [] c \in {"bearer", "token"} -> 401
      [] c = "role" -> 403
      [] c \in {"json", "fields"} -> 400
      [] OTHER -> 500

\* C2 amended: leaving the preflight aside (OPTIONS is answered 204 before
\* any check), the checks are evaluated in the fixed order method (405),
\* environment (500), bearer present (401), token valid (401), caller-profile
\* lookup succeeded (500), role is Admin (403), body parses (400), required
\* fields (400); an answer that reports a failed check reports the first
\* check of that order that fails, and no later check was evaluated.  So
\* (3)+(4) violated is never answered 400, and is answered 403 once the role
\* check is reached; a non-preflight request violating (1) is answered 405.
C2_CheckOrder ==
    (InFlight /\ R.method # "OPTIONS") =>
        /\ IsPrefix(R.checks, CheckOrder)
        /\ \A i \in 1..Len(R.checks) :
              CheckFails(R.checks[i]) => (i = Len(R.checks) /\ Ended)
        /\ (Answered /\ CheckOfCode(R.resp.code) # None) =>
              /\ R.checks # <<>>
              /\ R.checks[Len(R.checks)] = CheckOfCode(R.resp.code)
              /\ CheckFails(CheckOfCode(R.resp.code))
              /\ R.resp.status = StatusOfCheck(CheckOfCode(R.resp.code))
              /\ ~R.resp.ok
        /\ (Answered /\ \E i \in 1..Len(CheckOrder) : CheckFails(CheckOrder[i])) =>
              CheckOfCode(R.resp.code) # None
        /\ (Answered /\ ~Pre1) => R.resp.status = 405
        /\ (Answered /\ Pre2 /\ ~Pre3 /\ ~Pre4) =>
              /\ R.resp.status # 400
              /\ "role" \in {R.checks[i] : i \in 1..Len(R.checks)}
                    => R.resp.status = 403

\* a non-administrator's POST with a malformed body was answered 403, the
\* body never having been looked at
C2_Witness ==
    /\ Answered /\ R.method = "POST" /\ Caller = EmpId /\ ~BodyParses
    /\ R.resp.status = 403
    /\ R.checks = <<"method", "env", "bearer", "token", "lookup", "role">>

----------------------------------------------------------------------------
(* C3 *)

\* C3 as stated: every request without a bearer credential is answered 401,
\* whatever its body.  (Read in the claim's favour: preflights and a server
\* without its environment are left out.)
C3_Original ==
    (Answered /\ NoCredential /\ R.method # "OPTIONS" /\ envOK)
        => (R.resp.status = 401 /\ ~R.resp.ok)

\* C3 amended: every POST without a bearer credential that reaches a
\* configured server is answered 401 with ok=false, whatever its body: with
\* code MISSING_AUTH and before any platform call when the header is absent,
\* empty or the prefix followed by blanks only, and with code INVALID_TOKEN,
\* once token validation has rejected it, when the header is the bare word
\* Bearer.
C3_MissingBearer ==
    (Ended /\ NoCredential /\ R.method = "POST" /\ envOK) =>
        /\ R.authHeader # <<"Bearer">> =>
              /\ Answered
              /\ R.resp.status = 401 /\ R.resp.envelope /\ ~R.resp.ok
              /\ R.resp.code = "MISSING_AUTH"
              /\ R.calls = <<>>
        /\ (R.authHeader = <<"Bearer">> /\ Answered) =>
              /\ R.resp.status = 401 /\ R.resp.envelope /\ ~R.resp.ok
              /\ R.resp.code = "INVALID_TOKEN"

\* a POST whose header is only the prefix, with a valid create body, got 401
C3_Witness ==
    /\ Answered /\ R.method = "POST" /\ R.authHeader = <<"Bearer", " ">>
    /\ R.body = PlainCreate(NewEmail, "New Person")
    /\ R.resp.status = 401 /\ R.resp.code = "MISSING_AUTH"

----------------------------------------------------------------------------
(* Vocabulary of the create-mode properties *)

\* every platform call of the request returned a value (a refused duplicate
\* is the identity service working as intended)
NoFaults == \A i \in 1..Len(R.calls) : R.calls[i].out \in {"ok", "dup"}

AccountsFor(email) ==
    {i \in 1..Len(authUsers) : ToLowerCase(authUsers[i].email) = ToLowerCase(email)}

RowsFor(email) ==
    {i \in DOMAIN profiles : ToLowerCase(profiles[i].email) = ToLowerCase(email)}

\* the response is the success response of create mode
CreateSucceeded == Answered /\ R.resp.ok /\ "id" \in R.resp.keys

\* the request repeats the create request that completed just before it
SameAsPrevious ==
    /\ prev.create
    /\ R.body.mode = None
    /\ R.body.email = prev.email
    /\ R.body.full_name = prev.full_name

----------------------------------------------------------------------------
(* C4 *)

\* C4: when an administrator submits the same {email, full_name} create
\* request twice in a row and the first succeeded, the second succeeds too
\* (no platform call of it failing), carries the same subject id, and exactly
\* one account and one UserProfile row exist for the email.
C4_Idempotent ==
    (Ended /\ SameAsPrevious /\ prev.ok /\ NoFaults) =>
        /\ CreateSucceeded
        /\ R.resp.id = prev.id
        /\ Cardinality(AccountsFor(R.body.email)) = 1
        /\ RowsFor(R.body.email) = {prev.id}

----------------------------------------------------------------------------
(* C5 *)

\* C5: whenever the answer is a failure (ok=false), the accounts of the
\* identity service and the rows of user_profiles are what they were when the
\* request arrived.
C5_Atomic ==
    (Answered /\ R.resp.envelope /\ ~R.resp.ok) =>
        /\ authUsers = R.pre.users
        /\ profiles = R.pre.profiles

----------------------------------------------------------------------------
(* C6 *)

\* C6: no request ends with an uncaught exception; every request that is not
\* a preflight ends with the structured envelope.
C6_Structured ==
    (Ended /\ R.method # "OPTIONS") => (Answered /\ R.resp.envelope)

----------------------------------------------------------------------------
(* C7 *)

\* C7: when a create request failed although the account for its email
\* exists (say, the profile upsert failed after createUser), the same request
\* submitted again (no platform call of it failing) succeeds with that
\* account's id and leaves exactly one account and one UserProfile row for
\* the email.
C7_RetrySafe ==
    (Ended /\ SameAsPrevious /\ ~prev.ok /\ NoFaults
     /\ EmailTaken(R.pre.users, R.body.email)) =>
        /\ CreateSucceeded
        /\ Cardinality(AccountsFor(R.body.email)) = 1
        /\ \A i \in AccountsFor(R.body.email) :
              /\ R.resp.id = authUsers[i].id
              /\ RowsFor(R.body.email) = {authUsers[i].id}

----------------------------------------------------------------------------
(* C8 *)

\* C8: when the invite was requested and its send failed (an error value or
\* an exception) after account and profile were written, the answer is
\* 200 / ok=true with inviteSent=false and the temporary credential, never a
\* failure.
C8_InviteDowngraded ==
    (Ended /\ CallOutcome("invite") \in {"err", "throw"}) =>
        /\ Answered
        /\ R.resp.status = 200 /\ R.resp.envelope /\ R.resp.ok
        /\ ~R.resp.inviteSent
        /\ "tempPassword" \in R.resp.keys
        /\ R.resp.tempPassword = R.tempPassword
        /\ R.resp.tempPassword # NoText
        /\ R.resp.id \in DOMAIN profiles
        /\ \E i \in 1..Len(authUsers) : authUsers[i].id = R.resp.id

\* the invite send threw and the request was answered with a success
C8_Witness ==
    /\ Answered /\ R.body.invite = "true"
    /\ CallOutcome("upsert") = "ok" /\ CallOutcome("invite") = "throw"
    /\ R.resp.ok /\ ~R.resp.inviteSent

----------------------------------------------------------------------------
(* C9 *)

\* C9: in every successful create response the temporary credential is
\* present exactly when inviteSent is false; with no invite and no supplied
\* password it is a non-empty generated one; with an invite that went out it
\* is absent.
C9_TempPasswordPresence ==
    CreateSucceeded =>
        /\ "tempPassword" \in R.resp.keys <=> ~R.resp.inviteSent
        /\ (R.body.invite # "true" /\ R.body.tempPassword = NoText) =>
              /\ "tempPassword" \in R.resp.keys
              /\ Len(R.resp.tempPassword) > 0
              /\ \E bytes \in RandomDraws :
                    R.resp.tempPassword = GenTempPassword(bytes)
        /\ (R.body.invite = "true" /\ CallOutcome("invite") = "ok") =>
              /\ R.resp.inviteSent
              /\ "tempPassword" \notin R.resp.keys

\* invite:false without a password was answered with a generated credential
C9_Witness ==
    /\ CreateSucceeded
    /\ R.body.invite = "false" /\ R.body.tempPassword = NoText
    /\ "tempPassword" \in R.resp.keys
    /\ Len(R.resp.tempPassword) = TempPasswordBytes + 3

----------------------------------------------------------------------------
(* C10 *)

\* C10: after a successful create the UserProfile row keyed by the returned
\* id holds the submitted full_name, the submitted role (Employee by default),
\* the submitted status (active by default), the submitted home_store_id and
\* must_reset_password = true unless an invite was requested.
C10_ProfileRow ==
    CreateSucceeded =>
        /\ R.resp.id \in DOMAIN profiles
        /\ LET row == profiles[R.resp.id] IN
              /\ row.id = R.resp.id
              /\ row.full_name = R.body.full_name
              /\ row.email = R.body.email
              /\ row.role = (IF R.body.role = None THEN "Employee" ELSE R.body.role)
              /\ row.status = (IF R.body.status = None THEN "active" ELSE R.body.status)
              /\ row.home_store_id = R.body.home_store_id
              /\ row.must_reset_password = (R.body.invite # "true")

\* a create with invite:false and no status left an active row that must
\* reset its password
C10_Witness ==
    /\ CreateSucceeded
    /\ R.body.invite = "false" /\ R.body.status = None
    /\ R.resp.id \in DOMAIN profiles
    /\ profiles[R.resp.id].status = "active"
    /\ profiles[R.resp.id].must_reset_password

----------------------------------------------------------------------------
(* C11 *)

\* the rows of user_profiles that are not what they were when the request
\* arrived (created, removed or changed)
TouchedRows ==
    {i \in DOMAIN profiles \cup DOMAIN R.pre.profiles :
        \/ i \notin DOMAIN R.pre.profiles
        \/ i \notin DOMAIN profiles
        \/ profiles[i] # R.pre.profiles[i]}

\* the calls of the request that make the identity service send an email
EmailCalls == Times("invite") + Times("resetPassword")

\* C11: a successful create has written exactly one UserProfile row, the one
\* keyed by the returned id, and no other row differs from what it was when
\* the request arrived; a request, whatever its mode and however it ends,
\* asks the identity service for at most one email; and user_store_access is
\* what it was when the request arrived.
C11_FrameEffects ==
    InFlight =>
        /\ accessGrants = R.pre.grants
        /\ EmailCalls <= 1
        /\ R.body.mode = "reset" => Times("invite") = 0
        /\ R.body.mode # "reset" => Times("resetPassword") = 0
        /\ TouchedRows \subseteq {R.userId}
        /\ CreateSucceeded =>
              /\ Times("upsert") = 1 /\ CallOutcome("upsert") = "ok"
              /\ R.resp.id \in DOMAIN profiles
              /\ profiles[R.resp.id] = ProfilePayload(R.resp.id, R.body)
              /\ TouchedRows \subseteq {R.resp.id}
              /\ \A i \in DOMAIN R.pre.profiles :
                    i # R.resp.id =>
                        (i \in DOMAIN profiles /\ profiles[i] = R.pre.profiles[i])

\* a create with an invite that went out: one new row, one email, the
\* access grants as they were
C11_Witness ==
    /\ CreateSucceeded /\ R.resp.inviteSent
    /\ TouchedRows = {R.resp.id}
    /\ R.resp.id \notin DOMAIN R.pre.profiles
    /\ EmailCalls = 1
    /\ accessGrants = InitialGrants /\ accessGrants # {}

----------------------------------------------------------------------------
(* C12 *)

\* the caller supplied a correlation identifier (an empty header is none)
SuppliedCorrelation == R.correlationHeader \notin {None, ""}

\* the identifier the request's responses are to carry
ExpectedCorrelation ==
    IF SuppliedCorrelation THEN R.correlationHeader ELSE R.uuid

----------------------------------------------------------------------------
(* Vocabulary of the console properties *)

\* the running or just ended handler is handleSave and it has entered
\* syncStoreAccess
InSync == ui.op = "save" /\ ui.trace.sync

\* the handler has returned
OpEnded == ui.pc = "ended"

\* syncStoreAccess has returned (handleSave is at loadUsers or over)
SyncOver == InSync /\ ui.pc \in {"saveLoadUsers", "ended"}

\* the positions in the write log of the writes of one kind
WritesOf(op) ==
    {i \in 1..Len(ui.trace.writes) : ui.trace.writes[i].op = op}

\* the additions and removals the arguments of syncStoreAccess call for
Additions == ui.syncCurrent \ ui.syncInitial
Removals == ui.syncInitial \ ui.syncCurrent

----------------------------------------------------------------------------
(* C13 *)

\* C13: syncStoreAccess(userId, initial, current) issues at most one insert,
\* whose rows are exactly one row per store of current \ initial, each for
\* userId and stamped with the acting administrator's id, and at most one
\* delete, covering exactly the user's rows for initial \ current, the
\* insert first; with nothing to add and nothing to remove it issues no
\* write; once it has returned with no write failing, each write called for
\* was issued, and user_store_access is what it was with the additions in
\* and the removals out, rows for stores in both sets being untouched.
C13_SyncWrites ==
    InSync =>
        /\ Cardinality(WritesOf("insert")) <= 1
        /\ Cardinality(WritesOf("delete")) <= 1
        /\ Len(ui.trace.writes) <= 2
        /\ \A i \in WritesOf("insert") :
              /\ i = 1
              /\ Additions # {}
              /\ ui.trace.writes[i].rows =
                    {Grant(ui.subject, s, ui.adminId) : s \in Additions}
        /\ \A i \in WritesOf("delete") :
              /\ Removals # {}
              /\ ui.trace.writes[i].rows =
                    {Grant(ui.subject, s, None) : s \in Removals}
        /\ (Additions = {} /\ Removals = {}) =>
              (ui.trace.writes = <<>> /\ accessGrants = ui.trace.before)
        /\ (SyncOver /\ ui.trace.failed = {}) =>
              /\ Additions # {} <=> WritesOf("insert") # {}
              /\ Removals # {} <=> WritesOf("delete") # {}
              /\ accessGrants =
                    {g \in ui.trace.before \cup
                            {Grant(ui.subject, s, ui.adminId) : s \in Additions} :
                        ~(g.user_id = ui.subject /\ g.store_id \in Removals)}
              /\ \A g \in ui.trace.before :
                    (g.user_id # ui.subject
                     \/ g.store_id \in ui.syncInitial \cap ui.syncCurrent)
                        => g \in accessGrants

\* the employee's stores {store-1, store-2} were changed to {store-2,
\* store-3}: one insert for store-3, one delete for store-1, the row for
\* store-2 as it was
C13_Witness ==
    /\ SyncOver /\ OpEnded /\ ui.trace.failed = {}
    /\ ui.subject = EmpId
    /\ ui.syncInitial = {"store-1", "store-2"}
    /\ ui.syncCurrent = {"store-2", "store-3"}
    /\ ui.trace.writes =
          << [op |-> "insert", rows |-> {Grant(EmpId, "store-3", AdminId)},
              out |-> "ok"],
             [op |-> "delete", rows |-> {Grant(EmpId, "store-1", None)},
              out |-> "ok"] >>
    /\ accessGrants =
          {Grant(EmpId, "store-2", AdminId), Grant(EmpId, "store-3", AdminId)}

----------------------------------------------------------------------------
(* C14 *)

\* the save before this one was for the same user, applied the store set that
\* is selected now without any step failing, and the selection was not
\* touched since
SameTargetAgain ==
    /\ ui.op = "save"
    /\ ui.last.op = "save" /\ ui.last.clean
    /\ ui.last.user = ui.form.id
    /\ ui.last.target = ui.assignedStores

\* C14: access synchronization is idempotent: when the console has applied a
\* target store set for a user and the administrator saves again without
\* changing the selection, the second save issues no insert and no delete on
\* user_store_access and leaves the table as it was.
C14_SyncIdempotent ==
    SameTargetAgain =>
        /\ ui.trace.writes = <<>>
        /\ ui.trace.sync => accessGrants = ui.trace.before

\* the second save of {store-2, store-3} for the employee has run through
\* syncStoreAccess and ended
C14_Witness ==
    /\ SameTargetAgain /\ SyncOver /\ OpEnded
    /\ ui.subject = EmpId
    /\ ui.last.target = {"store-2", "store-3"}
    /\ AccessOf(accessGrants, EmpId) = {"store-2", "store-3"}
    /\ ui.trace.toasts = <<"success">>

----------------------------------------------------------------------------
(* C15 *)

\* C15: in every reachable state of user_profiles, every row whose role is
\* not Admin has a home_store_id that is not null, whichever writer in scope
\* wrote it (the endpoint's create-mode upsert, the console's saves and its
\* status transitions).
C15_HomeStoreInvariant ==
    \A id \in DOMAIN profiles :
        profiles[id].role # "Admin" => profiles[id].home_store_id # None

----------------------------------------------------------------------------
(* C16 *)

\* a response to a request that is not the CORS preflight
NonPreflight == Answered /\ R.method # "OPTIONS"

\* the bearer is missing or token validation rejected it
BearerRejected ==
    ExtractBearer(R.authHeader) = <<>> \/ CallOutcome("getUser") = "err"

\* the caller was resolved, the role was read, and it is not Admin
RoleRejected ==
    /\ CallOutcome("getUser") = "ok" /\ CallOutcome("lookup") = "ok"
    /\ CallerRoleAtReceipt # "Admin"

\* the caller was found to be an administrator
CallerAdmitted ==
    /\ CallOutcome("getUser") = "ok" /\ CallOutcome("lookup") = "ok"
    /\ CallerRoleAtReceipt = "Admin"

\* an identity-service or database call of the request failed
PlatformFailure ==
    \/ CallOutcome("lookup") = "err"
    \/ CallOutcome("resetPassword") \in {"err", "throw"}
    \/ CallOutcome("createUser") \in {"err", "dup", "empty"}
    \/ CallOutcome("upsert") = "err"

\* C16 as stated: 200 exactly when ok; 405 for a method other than POST; 401
\* for a missing or invalid bearer; 403 for a caller who is not an
\* administrator; 400 for a bad body; 500 for an identity-service or
\* database failure, with the platform's error in the error object.  (The
\* conditions are read in the order of the checks.)
C16_Original ==
    NonPreflight =>
        /\ R.resp.envelope
        /\ R.resp.status \in {200, 400, 401, 403, 405, 500}
        /\ R.resp.status = 200 <=> R.resp.ok
        /\ R.resp.status = 405 <=> R.method # "POST"
        /\ R.resp.status = 401 <=> (R.method = "POST" /\ BearerRejected)
        /\ R.resp.status = 403 <=> (R.method = "POST" /\ RoleRejected)
        /\ R.resp.status = 400 <=>
              (R.method = "POST" /\ CallerAdmitted /\ ~BodyComplete)
        /\ R.resp.status = 500 =>
              (PlatformFailure /\ R.resp.details # None)

\* C16 amended: as stated, with two additions.  A POST that reaches a server
\* without its environment is answered 500 MISSING_ENV, whatever its
\* credential, with the presence of the two variables as details; and the
\* 500 for an identity-service or database failure carries the failed
\* call's error as error.details except when createUser returned neither an
\* account nor an error.
C16_StatusByOutcome ==
    NonPreflight =>
        /\ R.resp.envelope
        /\ R.resp.status \in {200, 400, 401, 403, 405, 500}
        /\ R.resp.status = 200 <=> R.resp.ok
        /\ R.resp.status = 405 <=> R.method # "POST"
        /\ R.resp.status = 401 <=> (R.method = "POST" /\ envOK /\ BearerRejected)
        /\ R.resp.status = 403 <=> (R.method = "POST" /\ envOK /\ RoleRejected)
        /\ R.resp.status = 400 <=>
              (R.method = "POST" /\ envOK /\ CallerAdmitted /\ ~BodyComplete)
        /\ R.resp.status = 500 =>
              /\ ~envOK \/ PlatformFailure
              /\ ~envOK <=> R.resp.code = "MISSING_ENV"
              /\ ~envOK => (R.resp.details = "env" /\ R.calls = <<>>)
              /\ R.resp.details = None <=> CallOutcome("createUser") = "empty"
        /\ R.resp.status = 200 =>
              /\ R.resp.details = None
              /\ R.body.mode = "reset" => CallOutcome("resetPassword") = "ok"
              /\ R.body.mode # "reset" =>
                    /\ CallOutcome("upsert") = "ok"
                    /\ \E i \in 1..Len(authUsers) : authUsers[i].id = R.resp.id

\* a create whose profile upsert failed was answered 500 with the database's
\* error as details
C16_Witness ==
    /\ NonPreflight /\ R.resp.status = 500
    /\ R.resp.code = "PROFILE_UPSERT_FAILED" /\ R.resp.details = "upsertErr"
    /\ CallOutcome("createUser") = "ok" /\ CallOutcome("upsert") = "err"

----------------------------------------------------------------------------
(* C17 *)

\* the request is a reset that got as far as resetPasswordForEmail
ResetAttempted ==
    Answered /\ R.body.mode = "reset" /\ CallOutcome("resetPassword") # None

\* the target email had an account when the request arrived
TargetExists == EmailTaken(R.pre.users, R.body.email)

C17_WitnessExisting ==
    /\ ResetAttempted /\ TargetExists
    /\ R.resp.ok /\ R.resp.status = 200 /\ R.resp.keys = {"resetLink"}

----------------------------------------------------------------------------
(* C18 *)

\* C18: no operation physically deletes a user_profiles row or a stores row:
\* in every step the profile ids and the store ids that exist still exist
\* afterwards; a user is removed only through its status, a store only
\* through status inactive.
C18_NoPhysicalDelete ==
    [][/\ DOMAIN profiles \subseteq DOMAIN profiles'
       /\ DOMAIN stores \subseteq DOMAIN stores']_vars

\* the user the administrator created has been soft-deleted: its row is
\* still there, marked deleted
C18_Witness ==
    /\ ui.op = "softDelete" /\ OpEnded /\ ui.trace.toasts = <<"success">>
    /\ ui.subject \in DOMAIN profiles
    /\ profiles[ui.subject].status = "deleted"

----------------------------------------------------------------------------
(* C19 *)

\* the kinds of toast the operation has shown
ToastsShown == {ui.trace.toasts[i] : i \in 1..Len(ui.trace.toasts)}

\* the steps whose failure the console is to report: the endpoint call, the
\* profile update, the sync's insert and delete, the reset request and the
\* three status transitions, whether they returned an error or threw
ReportedSteps ==
    {"endpoint", "update", "grantInsert", "grantDelete", "reset", "deactivate",
     "reactivate", "softDelete"}

C19_NeverOnlySuccess ==
    (OpEnded /\ ui.trace.failed \cap ReportedSteps # {}) =>
        ~(ui.err = None /\ ToastsShown = {"success"})

----------------------------------------------------------------------------
(* C20 *)

\* the status each of the two actions is to persist
StatusAfter(op) == IF op = "deactivate" THEN "inactive" ELSE "deleted"

\* Deactivate or Soft Delete has ended with its success toast
RemovalReported ==
    /\ OpEnded /\ ui.op \in {"deactivate", "softDelete"}
    /\ "success" \in ToastsShown

\* C20: whenever Deactivate (Soft Delete) completes and reports success for a
\* user, that user's persisted status is inactive (deleted) and
\* user_store_access holds no row for that user.
C20_RemovalComplete ==
    RemovalReported =>
        /\ ui.subject \in DOMAIN profiles
        /\ profiles[ui.subject].status = StatusAfter(ui.op)
        /\ AccessOf(accessGrants, ui.subject) = {}

\* the first half of C20 alone: the status is persisted
C20_StatusPersisted ==
    RemovalReported =>
        /\ ui.subject \in DOMAIN profiles
        /\ profiles[ui.subject].status = StatusAfter(ui.op)

----------------------------------------------------------------------------
(* C21 *)

\* C21: soft delete is not reversible from the console: once the persisted
\* status of a user_profiles row is deleted, no console action changes it to
\* another value.
C21_DeletedStaysDeleted ==
    [][\A id \in DOMAIN profiles :
          profiles[id].status = "deleted" =>
              (id \in DOMAIN profiles' /\ profiles'[id].status = "deleted")]_vars

\* a soft-deleted user has been selected again from the list: the form shows
\* its status in the status select, which still offers active
C21_DeletedUserLoaded ==
    /\ ui.pc = "idle" /\ ui.form.id \in DOMAIN profiles
    /\ ui.form.status = "deleted" /\ profiles[ui.form.id].status = "deleted"

----------------------------------------------------------------------------
(* C22 *)

\* the persisted role of the signed-in user ("": no user or no profile row)
SignedInRole ==
    IF AuthUser(auth) \in DOMAIN profiles THEN profiles[AuthUser(auth)].role ELSE ""

\* C22: a user who is not an Admin never has an admin page rendered: the
\* admin routes render their page only when booting is false, profileReady is
\* true, a user is signed in and the loaded profile's role is Admin, and the
\* signed-in user is then an administrator; in every other state the guards
\* show Loading, a redirect to /login or the access-denied message.
C22_AdminPageOnlyForAdmin ==
    /\ AdminRouteView(auth) = "adminPage" =>
          /\ ~auth.booting /\ auth.profileReady /\ AuthUser(auth) # None
          /\ auth.profile.role = "Admin"
          /\ SignedInRole = "Admin"
    /\ AdminRouteView(auth) # "adminPage" =>
          AdminRouteView(auth) \in {"loading", "login", "inactive", "denied"}

\* the first half of C22 as the guards see it: the page is rendered only with
\* a loaded profile whose role is Admin
C22_GuardConditions ==
    AdminRouteView(auth) = "adminPage" =>
        /\ ~auth.booting /\ auth.profileReady /\ AuthUser(auth) # None
        /\ auth.profile.role = "Admin"

\* C22 for the signed-in user alone
C22_SignedInIsAdmin ==
    AdminRouteView(auth) = "adminPage" => SignedInRole = "Admin"

----------------------------------------------------------------------------
(* C23 *)

\* the characters of a character tuple
CharsOf(text) == {text[i] : i \in 1..Len(text)}

DigitChars == {Base36Digits[i] : i \in 1..10}
LowercaseChars == {Base36Digits[i] : i \in 11..36}
UppercaseChars ==
    {"A", "B", "C", "D", "E", "F", "G", "H", "I", "J", "K", "L", "M", "N", "O",
     "P", "Q", "R", "S", "T", "U", "V", "W", "X", "Y", "Z"}
PunctuationChars == {"!", "@", "#", "$", "%", "^", "&", "*", "-", "_", "+", "="}

\* the password policy of the claim: the minimum length (the 12 characters
\* of the end-to-end scenario) and one character of each of the four classes
MeetsPolicy(password) ==
    /\ Len(password) >= 12
    /\ CharsOf(password) \cap LowercaseChars # {}
    /\ CharsOf(password) \cap UppercaseChars # {}
    /\ CharsOf(password) \cap DigitChars # {}
    /\ CharsOf(password) \cap PunctuationChars # {}

\* the request's temporary password came from genTempPassword
Generated ==
    /\ InFlight /\ R.tempPassword # NoText /\ R.body.tempPassword = NoText

\* C23: every temporary credential the generator produces meets the policy,
\* whatever the random draw: minimum length, a lowercase letter, an uppercase
\* letter, a digit and a punctuation character.
C23_GeneratedMeetsPolicy == Generated => MeetsPolicy(R.tempPassword)

\* a draw with letters gives a credential that meets the policy
C23_SomeDrawMeetsPolicy == Generated /\ MeetsPolicy(R.tempPassword)

----------------------------------------------------------------------------
(* C24 *)

\* the positions in the request's call log of the calls of one operation
CallsOf(op) == {i \in 1..Len(R.calls) : R.calls[i].op = op}

\* every call of op1 was made before every call of op2
AllBefore(op1, op2) == \A i \in CallsOf(op1), j \in CallsOf(op2) : i < j

\* C24: in create mode the steps run in the order CreateOrFindAccount,
\* UpsertProfile, SendInvite: the find-by-email scan only follows a createUser
\* that gave no account, the upsert is attempted only once a subject id has
\* been obtained, the invite only after the upsert succeeded and only when an
\* invite was requested, and createUser, the upsert and the invite are each
\* attempted at most once in a request.
C24_CreateSequence ==
    InFlight =>
        /\ Cardinality(CallsOf("createUser")) <= 1
        /\ Cardinality(CallsOf("upsert")) <= 1
        /\ Cardinality(CallsOf("invite")) <= 1
        /\ Cardinality(CallsOf("listUsers")) <= MaxScanPages
        /\ AllBefore("createUser", "listUsers")
        /\ AllBefore("createUser", "upsert")
        /\ AllBefore("listUsers", "upsert")
        /\ AllBefore("upsert", "invite")
        /\ CallsOf("listUsers") # {} =>
              CallOutcome("createUser") \in {"err", "dup"}
        /\ CallsOf("upsert") # {} =>
              /\ CallsOf("createUser") # {}
              /\ R.userId # None
              /\ \E i \in 1..Len(authUsers) : authUsers[i].id = R.userId
              /\ CallOutcome("createUser") = "ok" \/ CallsOf("listUsers") # {}
        /\ CallsOf("invite") # {} =>
              /\ CallOutcome("upsert") = "ok"
              /\ R.body.invite = "true"
              /\ CallsOf("invite") = {Len(R.calls)}
        /\ (CallsOf("createUser") # {} \/ CallsOf("upsert") # {}
             \/ CallsOf("invite") # {} \/ CallsOf("listUsers") # {}) =>
              (R.body.mode # "reset" /\ CallsOf("resetPassword") = {})

\* an account that existed was found by the scan, its profile upserted and
\* the invite sent, in that order
C24_Witness ==
    /\ Answered /\ R.resp.ok
    /\ [i \in 1..Len(R.calls) |-> R.calls[i].op]
          = <<"getUser", "lookup", "createUser", "listUsers", "upsert", "invite">>

----------------------------------------------------------------------------
(* C25 *)

\* the password of the identity-service account with the given id
PasswordOf(users, id) ==
    users[CHOOSE i \in 1..Len(users) : users[i].id = id].password

\* C25: whenever a successful create response includes data.tempPassword,
\* that value is the password set on the identity-service account data.id
\* names, also when the account existed already and its id was recovered by
\* the find-by-email scan.
C25_TempPasswordIsSet ==
    (CreateSucceeded /\ "tempPassword" \in R.resp.keys) =>
        /\ \E i \in 1..Len(authUsers) : authUsers[i].id = R.resp.id
        /\ PasswordOf(authUsers, R.resp.id) = R.resp.tempPassword

\* C25 for the accounts the request itself created
C25_HoldsForCreated ==
    (CreateSucceeded /\ "tempPassword" \in R.resp.keys
     /\ CallOutcome("createUser") = "ok") =>
        PasswordOf(authUsers, R.resp.id) = R.resp.tempPassword

----------------------------------------------------------------------------
(* C26 *)

\* C26: whenever a successful create response includes data.tempPassword (no
\* invite email was delivered), the user_profiles row the request wrote has
\* must_reset_password = true; the endpoint writes false only for requests
\* whose invite email was delivered.
C26_ResetFlagWithPassword ==
    (CreateSucceeded /\ "tempPassword" \in R.resp.keys) =>
        /\ R.resp.id \in DOMAIN profiles
        /\ profiles[R.resp.id].must_reset_password

\* C26 for the requests that asked for no invite
C26_HoldsWithoutInvite ==
    (CreateSucceeded /\ ~InviteRequested(R.body)) =>
        /\ "tempPassword" \in R.resp.keys
        /\ profiles[R.resp.id].must_reset_password

----------------------------------------------------------------------------
(* C27 *)

\* both concurrent requests have ended and none of their platform calls
\* failed, the refusal of a taken email aside
BothEnded == \A r \in Slots : rq[r].pc \in {"done", "crashed"}
NoCallFailed ==
    \A r \in Slots : \A i \in 1..Len(rq[r].calls) :
        rq[r].calls[i].out \in {"ok", "dup"}

\* the two requests overlapped: each arrived before the other had ended
Overlapped == \A r \in Slots : ~EmailTaken(rq[r].pre.users, NewEmail)

\* both answered ok with one id, and one account and one profile row exist
\* for the email, the row being the one of either request
SameSubjectOnce ==
    /\ \A r \in Slots : rq[r].pc = "done" /\ rq[r].resp.ok
    /\ rq[1].resp.id = rq[2].resp.id
    /\ Cardinality(AccountsFor(NewEmail)) = 1
    /\ {i \in DOMAIN profiles : ToLowerCase(profiles[i].email) = ToLowerCase(NewEmail)}
          = {rq[1].resp.id}
    /\ \E r \in Slots :
          profiles[rq[1].resp.id] = ProfilePayload(rq[1].resp.id, rq[r].body)

\* C27: when two create requests for the same unused email run concurrently,
\* under every interleaving of their calls both return success with the same
\* subject id, and exactly one account and one user_profiles row exist for
\* the email afterwards, the row's fields being those of one of the two.
C27_ConcurrentCreates ==
    (BothEnded /\ Overlapped /\ NoCallFailed) => SameSubjectOnce

\* C27 when the identity service holds few enough accounts for the scan
C27_HoldsWithinScan ==
    (BothEnded /\ Overlapped /\ NoCallFailed /\ hiddenBefore = 0) => SameSubjectOnce

\* the two requests overlapped and ended as the claim says
C27_ReachedAsClaimed ==
    BothEnded /\ Overlapped /\ NoCallFailed /\ SameSubjectOnce

----------------------------------------------------------------------------
(* C28 *)

\* syncStoreAccess has returned to handleSave (none of its writes threw)
SyncReturned ==
    /\ SyncOver
    /\ \A i \in 1..Len(ui.trace.writes) : ui.trace.writes[i].out # "throw"

\* the baseline syncStoreAccess was given was what user_store_access held for
\* the user when it was entered
EnteredInStep ==
    ui.syncInitial = AccessOf(ui.trace.before, ui.subject)

\* C28: after every return of syncStoreAccess, the returns after an error of
\* the insert or of the delete included, initialAssignedStores is the set of
\* stores user_store_access holds for that user (the baseline having been
\* right when syncStoreAccess was entered, and nobody else writing).
C28_BaselineIsPersisted ==
    (SyncReturned /\ EnteredInStep) =>
        ui.initialAssignedStores = AccessOf(accessGrants, ui.subject)

\* the same for the returns in which the delete reported no error
C28_HoldsUnlessDeleteFailed ==
    (SyncReturned /\ EnteredInStep /\ "grantDelete" \notin ui.trace.failed) =>
        ui.initialAssignedStores = AccessOf(accessGrants, ui.subject)

\* syncStoreAccess has returned after its insert reported an error, the
\* baseline and the table both as they were
C28_ReturnAfterInsertError ==
    /\ SyncReturned /\ EnteredInStep
    /\ "grantInsert" \in ui.trace.failed
    /\ ui.syncCurrent # ui.syncInitial
    /\ ui.initialAssignedStores = AccessOf(accessGrants, ui.subject)

----------------------------------------------------------------------------
(* C29 *)

\* the running or just ended handler is a Save pressed right after a
\* Deactivate of the same user that ended with its success toast and no step
\* failing, the form and the store selection not touched in between
SaveAfterDeactivate ==
    /\ ui.op = "save"
    /\ ui.last.op = "deactivate" /\ ui.last.clean
    /\ ui.last.user = ui.form.id

\* C29: after Deactivate has succeeded for the selected user, a Save pressed
\* without any further edit leaves that user's status in user_profiles
\* inactive and the user without rows in user_store_access.
C29_SaveKeepsDeactivation ==
    (SaveAfterDeactivate /\ OpEnded) =>
        /\ profiles[ui.form.id].status = "inactive"
        /\ AccessOf(accessGrants, ui.form.id) = {}

\* Deactivate itself leaves the user inactive and without access rows: the
\* state in which the Save is pressed
C29_DeactivationBeforeSave ==
    (SaveAfterDeactivate /\ ui.pc = "saveUpdate") =>
        /\ profiles[ui.form.id].status = "inactive"
        /\ AccessOf(accessGrants, ui.form.id) = {}
        /\ ui.form.status = "active"

\* such a Save has ended with its success toast
C29_SavedAfterDeactivate ==
    /\ SaveAfterDeactivate /\ OpEnded
    /\ ui.trace.failed = {} /\ ui.trace.toasts = <<"success">>

----------------------------------------------------------------------------
(* C30 *)

\* no boot and no profile query of AuthProvider is awaiting its result
Quiescent == auth.boots = 0 /\ auth.loads = <<>>

\* the exposed profile is null or the row of the user of the current session
ProfileOfSession ==
    /\ auth.session = None => auth.profile = NoProfile
    /\ auth.profile # NoProfile => auth.profile.id = auth.session

\* C30: in AuthProvider, whatever the interleaving of boot, auth-state-change
\* callbacks and their profile loads, once every call in flight has completed
\* profileReady is true and the exposed profile is that of the current
\* session's user (null without a session): a load started for an earlier
\* session never overwrites the result of a later one.
C30_ProfileMatchesSession ==
    Quiescent => (auth.profileReady /\ ProfileOfSession)

\* the half about profileReady alone
C30_ReadyWhenQuiescent ==
    Quiescent => auth.profileReady

\* the employee is signed in, the load for that session has completed and
\* the profile exposed is the employee's
C30_LoadedForSession ==
    /\ Quiescent /\ auth.profileReady
    /\ auth.session = EmpId
    /\ auth.profile = SelectProfile(profiles, EmpId)
    /\ auth.profile # NoProfile
====
